---- MODULE Spec2Model ----
(***************************************************************************)
(* Model of the Chinook SQLite MCP server (mcp_local_server_agent/server):  *)
(* the SQL classifier (db/client.py), the scoped transaction and the tool   *)
(* surface (db/client.py, surface/tools.py), the bearer auth gate           *)
(* (auth.py, app.py, config.py), and startup (app.py main, config.py,       *)
(* db/init.py, the role bindings of surface/tools.py register).             *)
(*                                                                         *)
(* Text (str) is modelled as a sequence of one-character strings; None is   *)
(* the distinguished value NoneVal.                                         *)
(***************************************************************************)
EXTENDS Integers, Sequences, FiniteSets, TLC

VARIABLES
    sql,        \* SpecSql: the string handed to the classifier (or NoneVal)
    sqlSeen,    \* SpecSql: what is_select / is_write and the two tool gates answered
    cfgPath,    \* SpecAuth: Config.MCP_PATH of the running process
    gate,       \* SpecAuth: the BearerAuthMiddleware instance (_token, _mount_path)
    req,        \* SpecAuth: the request being handled (path, Authorization header)
    resp,       \* SpecAuth: how the request was answered
    db,         \* Spec: the committed content of the working database file
    con,        \* Spec: the sqlite3 connection of the invocation in progress
    pc,         \* Spec: where the invocation in progress stands
    inv,        \* Spec: the tool invocation in progress (or the last one): tool, arguments
    stmts,      \* Spec: create_invoice: number of INSERT statements run so far
    log,        \* Spec: the connection-level events of this invocation, in order
    out,        \* Spec: the pending return value / exception, and what the caller got
    pre,        \* Spec: the committed content when the invocation started
    writes,     \* Spec: number of committed writing transactions so far
    env,        \* SpecBoot: the process environment main reads (PORT, MCP_PATH, ...)
    cfg,        \* SpecBoot: the Config load_config returned (or NoCfg)
    fs,         \* SpecBoot: the files: base file, working directory, working file, its -wal
    boot,       \* SpecBoot: where main stands, what it has done, the role bindings
    calls,      \* SpecConc: the tool invocations in progress, each with its connection
    hist,       \* SpecConc: every content the working copy has had committed
    agents,     \* SpecAgent: the agents of the project, in listing order
    agentCall,  \* SpecAgent: the last get_or_create_agent call and the creations so far
    raw,        \* SpecUrl: the MCP_SERVER_URL value handed to resolve_server_url_or_warn
    resolved,   \* SpecUrl: what it returned, and what it returns for its own output
    printer,    \* SpecOtel: the OTelVerbosePrinter: _step_spans and _step_start_ns
    tracer      \* SpecOtel: the spans started so far, with how often each was ended

sqlVars == <<sql, sqlSeen>>

authVars == <<cfgPath, gate, req, resp>>

dbVars == <<db, con, pc, inv, stmts, log, out, pre, writes>>

bootVars == <<env, cfg, fs, boot>>

concVars == <<calls, hist>>

agentVars == <<agents, agentCall>>

urlVars == <<raw, resolved>>

otelVars == <<printer, tracer>>

vars == <<sqlVars, authVars, dbVars, bootVars, concVars, agentVars, urlVars, otelVars>>

-----------------------------------------------------------------------------
(* Text helpers: Python str operations on sequences of characters.         *)

NoneVal == <<"<None>">>

\* str.isspace for the characters of the model's alphabet (regex \s likewise)
IsSpace(c) == c \in {" ", "\t", "\n"}

\* regex \w
IsWordChar(c) ==
    c \in {"a","c","d","e","i","l","n","o","p","r","s","t","u","x",
           "A","C","D","E","I","L","N","O","P","R","S","T","U","X",
           "0","1","_"}

\* re.IGNORECASE folding of one character
Lower(c) ==
    CASE c = "A" -> "a" [] c = "C" -> "c" [] c = "D" -> "d" [] c = "E" -> "e"
      [] c = "I" -> "i" [] c = "L" -> "l" [] c = "N" -> "n" [] c = "O" -> "o"
      [] c = "P" -> "p" [] c = "R" -> "r" [] c = "S" -> "s" [] c = "T" -> "t"
      [] c = "U" -> "u" [] c = "X" -> "x" [] c = "M" -> "m" [] c = "V" -> "v"
      [] OTHER -> c

\* number of leading whitespace characters
RECURSIVE LeadingSpaces(_)
LeadingSpaces(s) ==
    IF s = <<>> \/ ~IsSpace(Head(s)) THEN 0 ELSE 1 + LeadingSpaces(Tail(s))

\* number of trailing whitespace characters
RECURSIVE TrailingSpaces(_)
TrailingSpaces(s) ==
    IF s = <<>> \/ ~IsSpace(s[Len(s)]) THEN 0
    ELSE 1 + TrailingSpaces(SubSeq(s, 1, Len(s) - 1))

\* str.strip()
Strip(s) ==
    IF LeadingSpaces(s) = Len(s) THEN <<>>
    ELSE SubSeq(s, LeadingSpaces(s) + 1, Len(s) - TrailingSpaces(s))

\* str.startswith(p)
StartsWith(s, p) == Len(s) >= Len(p) /\ SubSeq(s, 1, Len(p)) = p

\* `sql or ""`
OrEmpty(s) == IF s = NoneVal \/ s = <<>> THEN <<>> ELSE s

-----------------------------------------------------------------------------
(* SQL classifier, db/client.py                                            *)

KwSelect == <<"s","e","l","e","c","t">>
KwInsert == <<"i","n","s","e","r","t">>
KwUpdate == <<"u","p","d","a","t","e">>
KwDelete == <<"d","e","l","e","t","e">>
KwReplace == <<"r","e","p","l","a","c","e">>

WriteKeywords == {KwInsert, KwUpdate, KwDelete, KwReplace}

\* the patterns without their \b
MatchKeyword_NoBoundary(s, kw) ==
    LET i == LeadingSpaces(s)
    IN  /\ Len(s) >= i + Len(kw)
        /\ \A j \in 1..Len(kw) : Lower(s[i + j]) = kw[j]

\* re.match(r"^\s*<kw>\b", s, re.IGNORECASE): leading whitespace, the keyword
\* in any case, then a word boundary (end of text or a non-word character)
MatchKeyword(s, kw) ==
    LET i == LeadingSpaces(s)
        j == i + Len(kw)
    IN  /\ Len(s) >= j
        /\ \A k \in 1..Len(kw) : Lower(s[i + k]) = kw[k]
        /\ (Len(s) = j \/ ~IsWordChar(s[j + 1]))

_select_re(s) == MatchKeyword(s, KwSelect)

\* a write pattern that also takes SELECT
_write_re_WithSelect(s) == \E kw \in WriteKeywords \cup {KwSelect} : MatchKeyword(s, kw)

_write_re(s) == \E kw \in WriteKeywords : MatchKeyword(s, kw)

\* a check that only refuses a second separator
_single_statement_CountOnly(s) ==
    Cardinality({i \in 1..Len(Strip(s)) : Strip(s)[i] = ";"}) <= 1

\* ";" in s[:-1] for s = sql.strip(): a separator anywhere but the last place
_single_statement(s) ==
    LET t == Strip(s)
    IN  ~(\E k \in 1..(Len(t) - 1) : t[k] = ";")

\* a test that takes any single statement for a SELECT
is_select_AnySingle(s) == _single_statement(s)

is_select(s) == _select_re(OrEmpty(s)) /\ _single_statement(s)

is_write(s) == _write_re(OrEmpty(s)) /\ _single_statement(s)

\* the spec's SqlStatementClass, as the two predicates determine it
Classify(s) ==
    IF is_select(s) THEN "Read" ELSE IF is_write(s) THEN "Write" ELSE "Invalid"

\* a read gate that lets any single statement through
run_sql_gate_AnyStatement(query) == is_select(query) \/ is_write(query)

\* the gates of the two raw-SQL tools, surface/tools.py: the call goes on to
\* the database only when the gate holds
run_sql_gate(query) == is_select(query)

run_sql_write_gate(query) == is_write(query)

-----------------------------------------------------------------------------
(* Inputs of the classifier: texts made of at most MaxPieces pieces.       *)

MaxPieces == 3

Pieces ==
    { KwSelect, <<"S","E","L","E","C","T">>, KwInsert, KwUpdate,
      <<"D","e","l","e","t","e">>, KwReplace, <<"d","r","o","p">>,
      <<" ">>, <<";">>, <<"x">>, <<"_">>, <<"\n">> }

RECURSIVE TextsOf(_)
TextsOf(n) ==
    IF n = 0 THEN {<<>>}
    ELSE LET shorter == TextsOf(n - 1)
         IN  shorter \cup {t \o p : t \in shorter, p \in Pieces}

SqlTexts == TextsOf(MaxPieces) \cup {NoneVal}

NotAsked == [asked |-> FALSE, sel |-> FALSE, wr |-> FALSE, cls |-> "none",
             rd |-> FALSE, wrt |-> FALSE]

\* both predicates applied to the same text
ClassifyText ==
    /\ ~sqlSeen.asked
    /\ sqlSeen' = [asked |-> TRUE, sel |-> is_select(sql), wr |-> is_write(sql),
                    cls |-> Classify(sql), rd |-> run_sql_gate(sql),
                    wrt |-> run_sql_write_gate(sql)]
    /\ UNCHANGED sql


-----------------------------------------------------------------------------
(* Auth gate, auth.py; its construction in app.py main                     *)

BearerPrefix == <<"B","e","a","r","e","r"," ">>

\* str.rstrip("/")
RECURSIVE RStripSlash(_)
RStripSlash(s) ==
    IF s # <<>> /\ s[Len(s)] = "/" THEN RStripSlash(SubSeq(s, 1, Len(s) - 1))
    ELSE s

extract_bearer_token(header_value) ==
    IF header_value = NoneVal \/ header_value = <<>> THEN NoneVal
    ELSE IF StartsWith(header_value, BearerPrefix)
         THEN SubSeq(header_value, Len(BearerPrefix) + 1, Len(header_value))
         ELSE NoneVal

\* BearerAuthMiddleware.__init__
NewGate(token, mount_path) ==
    [ token |-> token,
      mount_path |-> IF RStripSlash(mount_path) = <<>> THEN <<"/">>
                     ELSE RStripSlash(mount_path) ]

\* `not self._token`
\* a gate that is open only when the token is None
NoToken_NoneOnly(g) == g.token = NoneVal

\* `not self._token`: None or the empty string
NoToken(g) == g.token = NoneVal \/ g.token = <<>>

\* a gate that checks the mount path itself only
UnderMount_ExactOnly(g, path) == path = g.mount_path

\* a gate that takes every path with the mount path as a prefix
UnderMount_PrefixOnly(g, path) == StartsWith(path, g.mount_path)

\* path == mount or path.startswith(mount + "/")
UnderMount(g, path) ==
    path = g.mount_path \/ StartsWith(path, g.mount_path \o <<"/">>)

\* the check of dispatch: TRUE when the request is answered 401
Denied(g, r) ==
    /\ ~NoToken(g)
    /\ UnderMount(g, r.path)
    /\ extract_bearer_token(r.header) # g.token

\* the path the inner application built by mcp.streamable_http_app() routes to
\* the tool surface, as main announces it
PathMcp == <<"/","m","c","p">>

AppServes(path) == path = PathMcp

\* the mount_path main hands to the middleware
MainMountPath == PathMcp

Unauthorized == [status |-> 401, body |-> "unauthorized", forwarded |-> FALSE, ranTool |-> FALSE]

\* call_next(request): the inner application answers
CallNext(r) ==
    [ status |-> IF AppServes(r.path) THEN 200 ELSE 404,
      body |-> "app",
      forwarded |-> TRUE,
      ranTool |-> AppServes(r.path) ]

dispatch(g, r) == IF Denied(g, r) THEN Unauthorized ELSE CallNext(r)

(* Inputs of the gate *)

TokTok == <<"t","o","k">>
TokBad == <<"b","a","d">>

\* values of LOCAL_MCP_TOKEN: unset, set but empty, set
Tokens == {NoneVal, <<>>, TokTok, TokBad}

\* values of MCP_PATH that Config.validate accepts
CfgPaths == {PathMcp, <<"/","a","p","i">>, PathMcp \o <<"/">>}

Schemes == {<<>>, BearerPrefix, <<"b","e","a","r","e","r"," ">>,
            <<"B","e","a","r","e","r">>, <<"B","a","s","i","c"," ">>}

Credentials == {<<>>, TokTok, TokBad, TokTok \o <<" ">>}

Headers == {s \o c : s \in Schemes, c \in Credentials} \cup {NoneVal}

PathHeads == {PathMcp, <<"/","a","p","i">>, <<"/","M","C","P">>, <<"/","h","e","a","l","t","h">>}

PathTails == {<<>>, <<"/">>, <<"/","x">>, <<"x">>}

Paths == {h \o t : h \in PathHeads, t \in PathTails} \cup {<<"/">>}

NoReq == [path |-> <<>>, header |-> NoneVal, pending |-> FALSE]

NoResp == [status |-> 0, body |-> "none", forwarded |-> FALSE, ranTool |-> FALSE]

\* a request arrives
Receive ==
    /\ ~req.pending
    /\ \E p \in Paths, h \in Headers :
          req' = [path |-> p, header |-> h, pending |-> TRUE]
    /\ resp' = NoResp
    /\ UNCHANGED <<cfgPath, gate>>

\* BearerAuthMiddleware.dispatch answers it
Dispatch ==
    /\ req.pending
    /\ resp' = dispatch(gate, req)
    /\ req' = [req EXCEPT !.pending = FALSE]
    /\ UNCHANGED <<cfgPath, gate>>


-----------------------------------------------------------------------------
(* Database client, db/client.py                                           *)

\* execute_write's max_rows
MaxAffected == 10000

Min(a, b) == IF a < b THEN a ELSE b

Max(a, b) == IF a > b THEN a ELSE b

EmptyDb == [customers |-> <<>>, invoices |-> <<>>, lines |-> <<>>,
            tracks |-> [rows |-> 0, edited |-> 0]]

\* no connection object exists
NoCon == [open |-> FALSE, txn |-> FALSE, work |-> EmptyDb]

\* Database.connect: a new connection that sees the committed content
connect(d) == [open |-> TRUE, txn |-> FALSE, work |-> d]

\* con.rollback(): the connection sees the committed content again
rollback(c, d) == [c EXCEPT !.txn = FALSE, !.work = d]

\* a scope that releases the connection without committing
OnBodyReturn_NoCommit == "close"

\* the transaction scope after the body returned normally: con.commit()
OnBodyReturn == "commit"

\* a scope that commits what the failed body had written
OnBodyRaise_Commit == "commit"

\* the transaction scope after the body (or commit) raised: con.rollback(); raise
OnBodyRaise == "rollback"

\* a scope that never releases the connection
OnFinally_NoClose == "return"

\* the transaction scope's finally clause: con.close()
OnFinally == "close"

\* lastrowid of an INSERT into a rowid table: one more than the largest id
RECURSIVE MaxId(_)
MaxId(rows) == IF rows = <<>> THEN 0 ELSE Max(Head(rows).id, MaxId(Tail(rows)))

\* what kind of statement the engine runs for a write-classified text
WriteOp(query) ==
    IF MatchKeyword(OrEmpty(query), KwDelete) THEN "delete"
    ELSE IF MatchKeyword(OrEmpty(query), KwUpdate) THEN "update"
    ELSE "insert"

\* con.total_changes - before, for a statement that names n rows
Affected(op, n, d) == IF op = "insert" THEN n ELSE Min(n, d.tracks.rows)

\* the statement's effect on the connection's view of the Track table
ApplyWrite(op, n, d) ==
    LET a == Affected(op, n, d)
    IN  CASE op = "insert" ->
               [d EXCEPT !.tracks.rows = @ + a]
          [] op = "delete" ->
               [d EXCEPT !.tracks.rows = @ - a,
                         !.tracks.edited = Min(@, d.tracks.rows - a)]
          [] OTHER ->
               [d EXCEPT !.tracks.edited = Max(@, a)]

\* a cap that already refuses max_rows itself
execute_write_AtCap(c, query, n, failing, max_rows) ==
    IF failing
    THEN [con |-> c, affected |-> 0, exc |-> "OperationalError"]
    ELSE LET op == WriteOp(query)
             a == Affected(op, n, c.work)
         IN  [ con |-> [c EXCEPT !.txn = TRUE, !.work = ApplyWrite(op, n, c.work)],
               affected |-> a,
               exc |-> IF a >= max_rows THEN "ValueError" ELSE "none" ]

\* execute_write: run the statement, then compare the affected count with
\* max_rows; the changes stay in the connection when it raises
execute_write(c, query, n, failing, max_rows) ==
    IF failing
    THEN [con |-> c, affected |-> 0, exc |-> "OperationalError"]
    ELSE LET op == WriteOp(query)
             a == Affected(op, n, c.work)
         IN  [ con |-> [c EXCEPT !.txn = TRUE, !.work = ApplyWrite(op, n, c.work)],
               affected |-> a,
               exc |-> IF a > max_rows THEN "ValueError" ELSE "none" ]

\* execute_read: con.execute runs the statement the text is, whatever its
\* kind; a SELECT changes nothing; the engine may refuse the text
execute_read(c, query, failing) ==
    IF failing THEN [con |-> c, exc |-> "OperationalError"]
    ELSE IF _write_re(OrEmpty(query))
    THEN [con |-> [c EXCEPT !.txn = TRUE, !.work = ApplyWrite(WriteOp(query), 1, c.work)],
          exc |-> "none"]
    ELSE [con |-> c, exc |-> "none"]

-----------------------------------------------------------------------------
(* Tool surface, surface/tools.py and surface/schema.py                    *)

\* _email_re = ^[^@\s]+@[^@\s]+\.[^@\s]+$ under re.match; `$` also matches
\* just before one final newline
EmailShape(t) ==
    /\ \A i \in 1..Len(t) : ~IsSpace(t[i])
    /\ Cardinality({i \in 1..Len(t) : t[i] = "@"}) = 1
    /\ LET a == CHOOSE i \in 1..Len(t) : t[i] = "@"
       IN  /\ a > 1
           /\ \E j \in (a + 2)..(Len(t) - 1) : t[j] = "."

_email_re(s) ==
    \/ EmailShape(s)
    \/ (s # <<>> /\ s[Len(s)] = "\n" /\ EmailShape(SubSeq(s, 1, Len(s) - 1)))

\* create_invoice's checks before the transaction: "none" or the error raised
RECURSIVE ItemsError(_)
ItemsError(items) ==
    IF items = <<>> THEN "none"
    ELSE IF ~Head(items).keys THEN "ValueError"
    ELSE IF Head(items).quantity <= 0 THEN "ValueError"
    ELSE ItemsError(Tail(items))

\* a check that looks at the first item only
create_invoice_check_FirstOnly(items) ==
    IF items = <<>> THEN "ValueError" ELSE ItemsError(<<Head(items)>>)

create_invoice_check(items) ==
    IF items = <<>> THEN "ValueError" ELSE ItemsError(items)

\* a total that adds the prices without the quantities
RECURSIVE InvoiceTotal_PriceOnly(_)
InvoiceTotal_PriceOnly(items) ==
    IF items = <<>> THEN 0
    ELSE Head(items).unit_price + InvoiceTotal_PriceOnly(Tail(items))

\* total = sum(float(unit_price) * int(quantity)), in cents
RECURSIVE InvoiceTotal(_)
InvoiceTotal(items) ==
    IF items = <<>> THEN 0
    ELSE Head(items).unit_price * Head(items).quantity + InvoiceTotal(Tail(items))

\* an UPDATE without its WHERE clause
update_email_NoWhere(customers, cid, email) ==
    [ rows |-> [k \in 1..Len(customers) |-> [customers[k] EXCEPT !.email = email]],
      rowcount |-> Len(customers) ]

\* UPDATE customers SET Email = :em WHERE CustomerId = :cid, and cur.rowcount
update_email(customers, cid, email) ==
    [ rows |-> [k \in 1..Len(customers) |->
                  IF customers[k].id = cid THEN [customers[k] EXCEPT !.email = email]
                  ELSE customers[k]],
      rowcount |-> Cardinality({k \in 1..Len(customers) : customers[k].id = cid}) ]

\* top_customers' check of limit
top_customers_check(limit) == IF limit < 1 \/ limit > 100 THEN "ValueError" ELSE "none"

\* PRAGMA table_info / PRAGMA foreign_key_list: the number of columns and of
\* declared foreign keys of each table
SchemaInfo ==
    [ Customer |-> [columns |-> 2, foreign_keys |-> 0],
      Invoice |-> [columns |-> 3, foreign_keys |-> 1],
      InvoiceLine |-> [columns |-> 5, foreign_keys |-> 2],
      Track |-> [columns |-> 2, foreign_keys |-> 0] ]

\* the tables PRAGMA table_info knows
TableNamesKnown == DOMAIN SchemaInfo

\* names with a quote in them: f"PRAGMA table_info('{table}');" does not parse
BrokenNames == {"a'b"}

\* the rows of get_table_info's two pragmas; none for a name that is no table
table_info(table) ==
    IF table \in TableNamesKnown THEN SchemaInfo[table]
    ELSE [columns |-> 0, foreign_keys |-> 0]

\* IFNULL(SUM(i.Total), 0.0) over the invoices joined to one customer
RECURSIVE TotalSpent(_, _)
TotalSpent(invoices, cid) ==
    IF invoices = <<>> THEN 0
    ELSE (IF Head(invoices).cid = cid THEN Head(invoices).total ELSE 0)
         + TotalSpent(Tail(invoices), cid)

\* an ordering by total only, ascending
OrderedBefore_Ascending(d, x, y) ==
    TotalSpent(d.invoices, x.id) < TotalSpent(d.invoices, y.id)
    \/ (TotalSpent(d.invoices, x.id) = TotalSpent(d.invoices, y.id) /\ x.id < y.id)

\* ORDER BY TotalSpent DESC, c.CustomerId ASC: x comes before y
OrderedBefore(d, x, y) ==
    TotalSpent(d.invoices, x.id) > TotalSpent(d.invoices, y.id)
    \/ (TotalSpent(d.invoices, x.id) = TotalSpent(d.invoices, y.id) /\ x.id < y.id)

\* top_customers' query: one row per customer, ordered, the first `limit` of them
top_customers_query(d, limit) ==
    LET n == Len(d.customers)
        place(i) == 1 + Cardinality({j \in 1..n : OrderedBefore(d, d.customers[j], d.customers[i])})
    IN  [k \in 1..Min(limit, n) |->
            LET i == CHOOSE i \in 1..n : place(i) = k
            IN  [customer_id |-> d.customers[i].id,
                 total_spent |-> TotalSpent(d.invoices, d.customers[i].id)]]

\* counts taken once, from the customers the server started with
row_counts_AtStartup(d) ==
    << [name |-> "Customer", row_count |-> Min(3, Len(d.customers))],
       [name |-> "Invoice", row_count |-> Min(1, Len(d.invoices))],
       [name |-> "InvoiceLine", row_count |-> Min(1, Len(d.lines))],
       [name |-> "Track", row_count |-> Min(1, d.tracks.rows)] >>

\* list_tables' loop: SELECT COUNT(*) FROM each table, in name order, over
\* the connection of this call
row_counts(d) ==
    << [name |-> "Customer", row_count |-> Len(d.customers)],
       [name |-> "Invoice", row_count |-> Len(d.invoices)],
       [name |-> "InvoiceLine", row_count |-> Len(d.lines)],
       [name |-> "Track", row_count |-> d.tracks.rows] >>

ReadTools == {"list_tables", "get_table_info", "run_sql", "top_customers", "schema_snapshot"}

WriteTools == {"run_sql_write", "insert_customer", "update_customer_email", "create_invoice"}

NoRet == [kind |-> "none", a |-> 0, b |-> 0, rows |-> <<>>]

BlankInv ==
    [ tool |-> "none", query |-> <<>>, n |-> 0, failing |-> FALSE, items |-> <<>>,
      cid |-> 0, email |-> <<>>, limit |-> 0, table |-> "none" ]

\* ret / exc: the pending return value / exception; body: how the body inside
\* the transaction scope ended; got: what reached the caller
BlankOut == [ret |-> NoRet, exc |-> "none", got |-> "none", body |-> "none"]

-----------------------------------------------------------------------------
(* Inputs of the tools                                                     *)

\* longest items list handed to create_invoice
MaxItems == 2

\* writing transactions committed in one run of the model
MaxWrites == 1

ItemGood == [keys |-> TRUE, track_id |-> 1, numeric |-> TRUE, unit_price |-> 99, quantity |-> 2]

\* a second priced item
ItemOther == [keys |-> TRUE, track_id |-> 2, numeric |-> TRUE, unit_price |-> 150, quantity |-> 1]

\* track_id is text that int() refuses
ItemBadTrack == [keys |-> TRUE, track_id |-> 0, numeric |-> FALSE, unit_price |-> 99, quantity |-> 1]

ItemZeroQty == [keys |-> TRUE, track_id |-> 1, numeric |-> TRUE, unit_price |-> 99, quantity |-> 0]

\* one of the three keys is absent
ItemNoKey == [keys |-> FALSE, track_id |-> 1, numeric |-> TRUE, unit_price |-> 99, quantity |-> 1]

ItemPool == {ItemGood, ItemOther, ItemBadTrack, ItemZeroQty, ItemNoKey}

RECURSIVE ItemListsOf(_)
ItemListsOf(n) ==
    IF n = 0 THEN {<<>>}
    ELSE LET shorter == ItemListsOf(n - 1)
         IN  shorter \cup {Append(l, i) : l \in shorter, i \in ItemPool}

ItemLists == ItemListsOf(MaxItems)

Tail_x == <<" ", "x">>

ToolQueries ==
    { KwSelect \o Tail_x,
      KwSelect \o Tail_x \o <<";">>,
      KwSelect \o Tail_x \o <<";">> \o KwDelete \o Tail_x,
      KwInsert \o Tail_x,
      <<"D","E","L","E","T","E">> \o Tail_x \o <<";", "\n">>,
      KwDelete \o Tail_x \o <<";", ";">>,
      KwUpdate \o Tail_x,
      <<" ">> \o KwReplace \o Tail_x,
      <<"d","r","o","p">> \o Tail_x,
      NoneVal }

\* row counts a write statement names
WriteSizes == {1, MaxAffected, MaxAffected + 1}

EmailGood == <<"a","@","b",".","c">>

EmailNew == <<"x","@","b",".","c">>

EmailBad == <<"a","b">>

\* a well-shaped address followed by a newline
EmailNl == EmailGood \o <<"\n">>

ToolEmails == {EmailGood, EmailNew, EmailBad, EmailNl}

ToolCustomerIds == {1, 9}

ToolLimits == {0, 1, 100, 101}

ToolTables == {"Customer", "Invoice", "nope", "a'b"}

\* the working copies the server may start from
BaseDbs ==
    { [ customers |-> <<[id |-> 1, email |-> EmailGood], [id |-> 2, email |-> EmailGood],
                        [id |-> 3, email |-> EmailNew]>>,
        invoices |-> <<[id |-> 1, cid |-> 3, total |-> 198]>>,
        lines |-> <<[iid |-> 1, tid |-> 1, price |-> 99, qty |-> 2]>>,
        tracks |-> [rows |-> r, edited |-> 0] ] : r \in {1, MaxAffected + 1} }

-----------------------------------------------------------------------------
(* Tool invocations, one at a time                                         *)

CanStart(tool) == pc = "idle"

\* the start of a tool call: its checks, then `with db.transaction() as con`
StartCall(i, err) ==
    /\ CanStart(i.tool)
    /\ inv' = i
    /\ stmts' = 0
    /\ pre' = db
    /\ IF err # "none"
       THEN /\ con' = con
            /\ log' = <<>>
            /\ out' = [BlankOut EXCEPT !.exc = err]
            /\ pc' = "return"
       ELSE /\ con' = connect(db)
            /\ log' = <<"connect">>
            /\ out' = BlankOut
            /\ pc' = "body"
    /\ UNCHANGED <<db, writes>>

\* the end of a tool body inside the transaction scope
EndBody(c, ret, exc) ==
    /\ con' = c
    /\ out' = [ret |-> IF exc = "none" THEN ret ELSE NoRet, exc |-> exc, got |-> "none",
               body |-> IF exc = "none" THEN "returned" ELSE exc]
    /\ pc' = IF exc = "none" THEN OnBodyReturn ELSE OnBodyRaise
    /\ UNCHANGED <<db, inv, stmts, log, pre, writes>>

list_tables ==
    \/ StartCall([BlankInv EXCEPT !.tool = "list_tables"], "none")
    \/ /\ pc = "body" /\ inv.tool = "list_tables"
       /\ EndBody(con, [kind |-> "tables", a |-> Len(con.work.customers),
                        b |-> con.work.tracks.rows, rows |-> row_counts(con.work)], "none")

schema_snapshot ==
    \/ StartCall([BlankInv EXCEPT !.tool = "schema_snapshot"], "none")
    \/ /\ pc = "body" /\ inv.tool = "schema_snapshot"
       /\ EndBody(con, [kind |-> "schema", a |-> Cardinality(TableNamesKnown), b |-> 0, rows |-> <<>>], "none")

get_table_info ==
    \/ /\ pc = "idle"
       /\ \E t \in ToolTables :
          StartCall([BlankInv EXCEPT !.tool = "get_table_info", !.table = t], "none")
    \/ /\ pc = "body" /\ inv.tool = "get_table_info"
       /\ LET t == table_info(inv.table)
          IN  EndBody(con, [kind |-> "table", a |-> t.columns, b |-> t.foreign_keys,
                            rows |-> <<>>],
                      IF inv.table \in BrokenNames THEN "OperationalError"
                      ELSE IF t.columns = 0 THEN "ValueError" ELSE "none")

run_sql ==
    \/ /\ pc = "idle"
       /\ \E q \in ToolQueries, f \in BOOLEAN :
          /\ (f => run_sql_gate(q))
          /\ StartCall([BlankInv EXCEPT !.tool = "run_sql", !.query = q, !.failing = f],
                       IF run_sql_gate(q) THEN "none" ELSE "ValueError")
    \/ /\ pc = "body" /\ inv.tool = "run_sql"
       /\ LET r == execute_read(con, inv.query, inv.failing)
          IN  EndBody(r.con, [kind |-> "rows", a |-> 0, b |-> 0, rows |-> <<>>], r.exc)

run_sql_write ==
    \/ /\ pc = "idle"
       /\ \E q \in ToolQueries, f \in BOOLEAN, n \in WriteSizes :
          /\ (~run_sql_write_gate(q) => (~f /\ n = 1))
          /\ StartCall([BlankInv EXCEPT !.tool = "run_sql_write", !.query = q,
                                        !.failing = f, !.n = n],
                       IF run_sql_write_gate(q) THEN "none" ELSE "ValueError")
    \/ /\ pc = "body" /\ inv.tool = "run_sql_write"
       /\ LET r == execute_write(con, inv.query, inv.n, inv.failing, MaxAffected)
          IN  EndBody(r.con, [kind |-> "affected", a |-> r.affected, b |-> 0, rows |-> <<>>], r.exc)

insert_customer ==
    \/ /\ pc = "idle"
       /\ \E e \in ToolEmails :
          StartCall([BlankInv EXCEPT !.tool = "insert_customer", !.email = e],
                    IF _email_re(e) THEN "none" ELSE "ValueError")
    \/ /\ pc = "body" /\ inv.tool = "insert_customer"
       /\ LET id == MaxId(con.work.customers) + 1
              c == [con EXCEPT !.txn = TRUE,
                               !.work.customers = Append(@, [id |-> id, email |-> inv.email])]
          IN  EndBody(c, [kind |-> "customer_id", a |-> id, b |-> 0, rows |-> <<>>], "none")

update_customer_email ==
    \/ /\ pc = "idle"
       /\ \E e \in ToolEmails, cid \in ToolCustomerIds :
          StartCall([BlankInv EXCEPT !.tool = "update_customer_email", !.email = e, !.cid = cid],
                    IF _email_re(e) THEN "none" ELSE "ValueError")
    \/ /\ pc = "body" /\ inv.tool = "update_customer_email"
       /\ LET u == update_email(con.work.customers, inv.cid, inv.email)
              \* an UPDATE that matches no row leaves nothing for commit to write
              c == [con EXCEPT !.txn = (u.rowcount > 0), !.work.customers = u.rows]
          IN  EndBody(c, [kind |-> "affected", a |-> u.rowcount, b |-> 0, rows |-> <<>>], "none")

top_customers ==
    \/ /\ pc = "idle"
       /\ \E l \in ToolLimits :
          StartCall([BlankInv EXCEPT !.tool = "top_customers", !.limit = l],
                    top_customers_check(l))
    \/ /\ pc = "body" /\ inv.tool = "top_customers"
       /\ LET r == top_customers_query(con.work, inv.limit)
          IN  EndBody(con, [kind |-> "rows", a |-> Len(r), b |-> 0, rows |-> r], "none")

\* create_invoice: the checks, then inside one transaction the header INSERT
\* and one INSERT per item, each a step of its own
create_invoice ==
    \/ /\ pc = "idle"
       /\ \E its \in ItemLists :
          StartCall([BlankInv EXCEPT !.tool = "create_invoice", !.items = its, !.cid = 1],
                    create_invoice_check(its))
    \/ /\ pc = "body" /\ inv.tool = "create_invoice" /\ stmts = 0
       /\ con' = [con EXCEPT !.txn = TRUE,
                             !.work.invoices = Append(@, [id |-> MaxId(@) + 1, cid |-> inv.cid,
                                                          total |-> InvoiceTotal(inv.items)])]
       /\ stmts' = 1
       /\ UNCHANGED <<db, pc, inv, log, out, pre, writes>>
    \/ /\ pc = "body" /\ inv.tool = "create_invoice" /\ stmts >= 1
       /\ LET it == inv.items[stmts]
              iid == MaxId(con.work.invoices)
              last == stmts = Len(inv.items)
          IN  IF ~it.numeric
              THEN /\ out' = [ret |-> NoRet, exc |-> "ValueError", got |-> "none",
                              body |-> "ValueError"]
                   /\ pc' = OnBodyRaise
                   /\ UNCHANGED <<con, stmts>>
              ELSE /\ con' = [con EXCEPT !.work.lines =
                                 Append(@, [iid |-> iid, tid |-> it.track_id,
                                            price |-> it.unit_price, qty |-> it.quantity])]
                   /\ stmts' = stmts + 1
                   /\ out' = IF last
                             THEN [ret |-> [kind |-> "invoice", a |-> iid,
                                            b |-> InvoiceTotal(inv.items), rows |-> <<>>],
                                   exc |-> "none", got |-> "none", body |-> "returned"]
                             ELSE out
                   /\ pc' = IF last THEN OnBodyReturn ELSE pc
       /\ UNCHANGED <<db, inv, log, pre, writes>>

\* Database.transaction after the body: con.commit(), which may itself raise
Commit ==
    /\ pc = "commit"
    /\ \/ /\ con.txn => writes < MaxWrites
          /\ db' = con.work
          /\ con' = [con EXCEPT !.txn = FALSE]
          /\ log' = Append(log, "commit")
          /\ writes' = IF con.txn THEN writes + 1 ELSE writes
          /\ pc' = OnFinally
          /\ UNCHANGED out
       \/ /\ con.txn
          /\ log' = Append(log, "commit_failed")
          /\ out' = [out EXCEPT !.ret = NoRet, !.exc = "OperationalError"]
          /\ pc' = OnBodyRaise
          /\ UNCHANGED <<db, con, writes>>
    /\ UNCHANGED <<inv, stmts, pre>>

\* except Exception: con.rollback(); raise
Rollback ==
    /\ pc = "rollback"
    /\ con' = rollback(con, db)
    /\ log' = Append(log, "rollback")
    /\ pc' = OnFinally
    /\ UNCHANGED <<db, inv, stmts, out, pre, writes>>

\* finally: con.close(); what was not committed is gone
Close ==
    /\ pc = "close"
    /\ con' = NoCon
    /\ log' = Append(log, "close")
    /\ pc' = "return"
    /\ UNCHANGED <<db, inv, stmts, out, pre, writes>>

\* the result or the exception reaches the caller
Deliver ==
    /\ pc = "return"
    /\ out' = [out EXCEPT !.got = IF out.exc = "none" THEN "ok" ELSE "error"]
    /\ pc' = "done"
    /\ UNCHANGED <<db, con, inv, stmts, log, pre, writes>>

\* the call is over; the server waits for the next one
Idle ==
    /\ pc = "done"
    /\ pc' = "idle"
    /\ inv' = BlankInv
    /\ stmts' = 0
    /\ log' = <<>>
    /\ out' = BlankOut
    /\ pre' = db
    /\ UNCHANGED <<db, con, writes>>

-----------------------------------------------------------------------------
(* Startup: app.py main, config.py, db/init.py, register in surface/tools.py *)

Slash == <<"/">>

\* str.lower() of a name, as SQL lower() and the engine's name matching fold it
LowerText(s) == [i \in 1..Len(s) |-> Lower(s[i])]

\* os.getenv(name, default)
GetEnv(v, default) == IF v = NoneVal THEN default ELSE v

TrueWords == {<<"1">>, <<"t","r","u","e">>, <<"y","e","s">>, <<"o","n">>}

_as_bool(v, default) ==
    IF v = NoneVal THEN default ELSE LowerText(Strip(v)) \in TrueWords

\* int(text) accepts the text
IntParses(t) == t # <<>> /\ \A i \in 1..Len(t) : t[i] \in {"0", "1", "7", "8"}

PortDefault == <<"8","7","8","7">>

(* Files.  A database file is what a connection reads from it: its table    *)
(* names, whether PRAGMA integrity_check answers "ok", and a row count.     *)

NoFile == [exists |-> FALSE, catalog |-> {}, sound |-> TRUE, rows |-> 0]

DbFile(catalog, sound, rows) ==
    [exists |-> TRUE, catalog |-> catalog, sound |-> sound, rows |-> rows]

\* what sqlite3.connect(working_path) reads: the write-ahead log's committed
\* frames over the main file when a -wal file lies next to it
View(f) == IF f.wal.exists THEN f.wal ELSE f.work

\* the last connection closes: the log is folded into the main file and removed
Checkpoint(f) == [f EXCEPT !.work = View(f), !.wal = NoFile]

NoCfg ==
    [ loaded |-> FALSE, PORT |-> <<>>, MCP_PATH |-> <<>>,
      PERSIST_WORKING_COPY |-> FALSE, LOCAL_MCP_TOKEN |-> NoneVal ]

\* Path.mkdir(parents=True, exist_ok=True)
mkdir(f) ==
    IF f.wdir = "file" THEN [exc |-> "FileExistsError", fs |-> f]
    ELSE [exc |-> "none", fs |-> [f EXCEPT !.wdir = "dir"]]

\* a validation that does not look for the base file
validate_NoBaseCheck(c, f) ==
    IF ~StartsWith(c.MCP_PATH, Slash) THEN [exc |-> "ValueError", fs |-> f]
    ELSE mkdir(f)

\* Config.validate
validate(c, f) ==
    IF ~StartsWith(c.MCP_PATH, Slash) THEN [exc |-> "ValueError", fs |-> f]
    ELSE IF f.base.kind = "absent" THEN [exc |-> "FileNotFoundError", fs |-> f]
    ELSE mkdir(f)

load_config(e, f) ==
    IF ~IntParses(GetEnv(e.PORT, PortDefault))
    THEN [cfg |-> NoCfg, exc |-> "ValueError", fs |-> f]
    ELSE LET c == [ loaded |-> TRUE,
                    PORT |-> GetEnv(e.PORT, PortDefault),
                    MCP_PATH |-> GetEnv(e.MCP_PATH, PathMcp),
                    PERSIST_WORKING_COPY |-> _as_bool(e.PERSIST_WORKING_COPY, FALSE),
                    LOCAL_MCP_TOKEN |-> e.LOCAL_MCP_TOKEN ]
             v == validate(c, f)
         IN  [cfg |-> IF v.exc = "none" THEN c ELSE NoCfg, exc |-> v.exc, fs |-> v.fs]

\* a start that copies the base file whatever persist says
ensure_working_copy_AlwaysCopy(f, persist) ==
    LET m == mkdir(f)
    IN  IF m.exc # "none" THEN [exc |-> m.exc, fs |-> f, copied |-> FALSE]
        ELSE IF f.base.kind = "file"
        THEN [exc |-> "none", fs |-> [m.fs EXCEPT !.work = f.base.data], copied |-> TRUE]
        ELSE [exc |-> "FileNotFoundError", fs |-> m.fs, copied |-> FALSE]

\* ensure_working_copy: shutil.copy2 replaces the working file and nothing else
ensure_working_copy(f, persist) ==
    LET m == mkdir(f)
    IN  IF m.exc # "none" THEN [exc |-> m.exc, fs |-> f, copied |-> FALSE]
        ELSE IF ~persist \/ ~m.fs.work.exists
        THEN IF f.base.kind = "file"
             THEN [exc |-> "none", fs |-> [m.fs EXCEPT !.work = f.base.data], copied |-> TRUE]
             ELSE [exc |-> IF f.base.kind = "dir" THEN "IsADirectoryError"
                           ELSE "FileNotFoundError",
                   fs |-> m.fs, copied |-> FALSE]
        ELSE [exc |-> "none", fs |-> m.fs, copied |-> FALSE]

\* a connection that starts with the settings the startup check applied
connection_settings_Inherited(by) ==
    [by |-> by, foreign_keys |-> TRUE, synchronous |-> "NORMAL"]

\* Database.connect: sqlite3.connect(path) and the row factory, no pragma: a
\* new connection has the engine's defaults
connection_settings(by) ==
    [by |-> by, foreign_keys |-> FALSE, synchronous |-> "FULL"]

\* apply_pragmas on a connection: foreign_keys=ON, synchronous=NORMAL for the
\* connection (journal_mode=WAL is kept by the file)
apply_pragmas(c) == [c EXCEPT !.foreign_keys = TRUE, !.synchronous = "NORMAL"]

\* a check that goes on whatever the pragma answers
integrity_check_Unchecked(f) == [exc |-> "none", fs |-> Checkpoint(f)]

\* integrity_check: one transaction scope on the working file; the connection
\* is closed on either path
integrity_check(f) ==
    [exc |-> IF View(f).sound THEN "none" ELSE "RuntimeError", fs |-> Checkpoint(f)]

(* Table roles *)

TCustomers == <<"c","u","s","t","o","m","e","r","s">>
TCustomer == <<"C","u","s","t","o","m","e","r">>
TInvoices == <<"i","n","v","o","i","c","e","s">>
TInvoice == <<"I","n","v","o","i","c","e">>
TInvoiceItems == <<"i","n","v","o","i","c","e","_","i","t","e","m","s">>
TInvoiceLine == <<"I","n","v","o","i","c","e","L","i","n","e">>

CustomersCandidates == <<TCustomers, TCustomer>>
InvoicesCandidates == <<TInvoices, TInvoice>>
InvoiceItemsCandidates == <<TInvoiceItems, TInvoiceLine>>

\* a probe that only finds the exact name
_has_table_ExactOnly(catalog, name) == name \in catalog

\* _has_table: name = :n, then lower(name) = lower(:n)
_has_table(catalog, name) ==
    IF name \in catalog THEN TRUE
    ELSE \E t \in catalog : LowerText(t) = LowerText(name)

RECURSIVE _pick_table(_, _)
_pick_table(catalog, candidates) ==
    IF candidates = <<>> THEN [name |-> <<>>, exc |-> "RuntimeError"]
    ELSE IF _has_table(catalog, Head(candidates))
         THEN [name |-> Head(candidates), exc |-> "none"]
         ELSE _pick_table(catalog, Tail(candidates))

NoTn == [customers |-> <<>>, invoices |-> <<>>, invoice_items |-> <<>>]

\* the head of register: the three picks in order, the first failure raises
TableNames(catalog) ==
    LET c == _pick_table(catalog, CustomersCandidates)
        i == _pick_table(catalog, InvoicesCandidates)
        l == _pick_table(catalog, InvoiceItemsCandidates)
    IN  IF c.exc # "none" THEN [tn |-> NoTn, exc |-> c.exc, probes |-> 1]
        ELSE IF i.exc # "none" THEN [tn |-> NoTn, exc |-> i.exc, probes |-> 2]
        ELSE IF l.exc # "none" THEN [tn |-> NoTn, exc |-> l.exc, probes |-> 3]
        ELSE [tn |-> [customers |-> c.name, invoices |-> i.name, invoice_items |-> l.name],
              exc |-> "none", probes |-> 3]

(* Inputs of startup *)

\* restarts of the process in one run of the model
MaxRestarts == 2

\* committed writing tool calls in one run of the model
MaxBootWrites == 2

BootEnvs ==
    [ PORT : {NoneVal, <<"x">>},
      MCP_PATH : {NoneVal, <<"/","a","p","i">>, <<"m","c","p">>, <<>>},
      PERSIST_WORKING_COPY : {NoneVal, <<"O","N","\n">>, <<"0">>},
      LOCAL_MCP_TOKEN : {NoneVal} ]

DefaultEnv ==
    [ PORT |-> NoneVal, MCP_PATH |-> NoneVal, PERSIST_WORKING_COPY |-> NoneVal,
      LOCAL_MCP_TOKEN |-> NoneVal ]

\* the table names a base file may hold for each role
CustomersTables ==
    { {}, {TCustomers}, {TCustomer}, {<<"C","U","S","T","O","M","E","R">>},
      {TCustomers, TCustomer}, {<<"C","U","S","T","O","M","E","R","S">>, TCustomer} }

InvoicesTables == { {}, {TInvoices}, {TInvoice} }

InvoiceItemsTables == { {}, {TInvoiceLine}, {<<"I","N","V","O","I","C","E","L","I","N","E">>} }

Catalogs == {c \cup i \cup l : c \in CustomersTables, i \in InvoicesTables, l \in InvoiceItemsTables}

ClassicCatalog == {TCustomer, TInvoice, TInvoiceLine}

BaseFiles ==
    {[kind |-> "file", data |-> DbFile(c, TRUE, 1)] : c \in Catalogs}
    \cup {[kind |-> "file", data |-> DbFile(ClassicCatalog, FALSE, 1)],
          [kind |-> "dir", data |-> NoFile],
          [kind |-> "absent", data |-> NoFile]}

\* the working directory before the first start: absent, there without or
\* with a working file of an earlier run, or a file at that path
WorkingDirs ==
    { [wdir |-> "absent", work |-> NoFile],
      [wdir |-> "dir", work |-> NoFile],
      [wdir |-> "dir", work |-> DbFile(ClassicCatalog, TRUE, 5)],
      [wdir |-> "file", work |-> NoFile] }

NoFs == [base |-> [kind |-> "absent", data |-> NoFile], wdir |-> "absent",
         work |-> NoFile, wal |-> NoFile]

\* main is about to run
BootStart(r, w) ==
    [ pc |-> "load_config", trace |-> <<>>, exc |-> "none", found |-> FALSE,
      copies |-> 0, tn |-> NoTn, probes |-> 0, tools |-> FALSE, serving |-> FALSE,
      conOpen |-> FALSE, since |-> 0, restarts |-> r, writes |-> w, cons |-> {} ]

(* The steps of main *)

\* an exception leaves main: the process ends
Abort(exc) == [boot EXCEPT !.pc = "aborted", !.exc = exc]

Done(phase, next) == [boot EXCEPT !.pc = next, !.trace = Append(@, phase)]

\* cfg = load_config()
LoadConfig ==
    /\ boot.pc = "load_config"
    /\ LET r == load_config(env, fs)
       IN  /\ cfg' = r.cfg
           /\ fs' = r.fs
           /\ boot' = IF r.exc = "none" THEN Done("load_config", "ensure_working_copy")
                      ELSE Abort(r.exc)
    /\ UNCHANGED env

\* ensure_working_copy(...)
EnsureWorkingCopy ==
    /\ boot.pc = "ensure_working_copy"
    /\ LET r == ensure_working_copy(fs, cfg.PERSIST_WORKING_COPY)
           b == [boot EXCEPT !.found = fs.work.exists,
                             !.copies = IF r.copied THEN @ + 1 ELSE @]
       IN  /\ fs' = r.fs
           /\ boot' = IF r.exc = "none"
                      THEN [b EXCEPT !.pc = "integrity_check",
                                     !.trace = Append(@, "ensure_working_copy")]
                      ELSE [b EXCEPT !.pc = "aborted", !.exc = r.exc]
    /\ UNCHANGED <<env, cfg>>

\* db = Database(working_path); integrity_check(db)
IntegrityCheck ==
    /\ boot.pc = "integrity_check"
    /\ LET r == integrity_check(fs)
       IN  /\ fs' = r.fs
           /\ boot' = [ (IF r.exc = "none" THEN Done("integrity_check", "resolve_roles")
                         ELSE Abort(r.exc))
                        EXCEPT !.cons = @ \cup {apply_pragmas(connection_settings("integrity_check"))} ]
    /\ UNCHANGED <<env, cfg>>

\* build_mcp, register: the role bindings, resolved in one transaction scope
ResolveRoles ==
    /\ boot.pc = "resolve_roles"
    /\ LET r == TableNames(View(fs).catalog)
           b == [boot EXCEPT !.tn = r.tn, !.probes = @ + r.probes,
                             !.cons = @ \cup {connection_settings("register")}]
       IN  boot' = IF r.exc = "none"
                   THEN [b EXCEPT !.pc = "register_tools", !.trace = Append(@, "resolve_roles")]
                   ELSE [b EXCEPT !.pc = "aborted", !.exc = r.exc]
    /\ UNCHANGED <<env, cfg, fs>>

\* register: the @mcp.tool() definitions, then the schema resource and the prompt
RegisterTools ==
    /\ boot.pc = "register_tools"
    /\ boot' = [boot EXCEPT !.pc = "serve", !.trace = Append(@, "register_tools"),
                            !.tools = TRUE]
    /\ UNCHANGED <<env, cfg, fs>>

\* streamable_http_app, add_middleware, uvicorn.run
Serve ==
    /\ boot.pc = "serve"
    /\ boot' = [boot EXCEPT !.pc = "serving", !.trace = Append(@, "serve"), !.serving = TRUE]
    /\ UNCHANGED <<env, cfg, fs>>

\* a writing tool call up to its con.commit(): the rows are in the -wal file
ToolWrite ==
    /\ boot.pc = "serving"
    /\ ~boot.conOpen
    /\ boot.writes < MaxBootWrites
    /\ fs' = [fs EXCEPT !.wal = [View(fs) EXCEPT !.rows = @ + 1]]
    /\ boot' = [boot EXCEPT !.conOpen = TRUE, !.since = @ + 1, !.writes = @ + 1,
                            !.cons = @ \cup {connection_settings("tool")}]
    /\ UNCHANGED <<env, cfg>>

\* the call's con.close()
ToolClose ==
    /\ boot.pc = "serving"
    /\ boot.conOpen
    /\ fs' = Checkpoint(fs)
    /\ boot' = [boot EXCEPT !.conOpen = FALSE]
    /\ UNCHANGED <<env, cfg>>

\* the process ends (it has aborted, or is stopped or killed while serving)
\* and is started again with the same environment and files
Restart ==
    /\ boot.pc \in {"serving", "aborted"}
    /\ boot.restarts < MaxRestarts
    /\ boot' = BootStart(boot.restarts + 1, boot.writes)
    /\ cfg' = NoCfg
    /\ UNCHANGED <<env, fs>>

-----------------------------------------------------------------------------
(* Concurrent tool invocations: each call of a tool runs                    *)
(* `with db.transaction() as con` on a connection of its own                *)

\* tool calls in progress at the same time
MaxSessions == 2

Sessions == 1..MaxSessions

\* no call in progress in this slot
NoCall ==
    [ pc |-> "idle", tool |-> "none", items |-> <<>>, con |-> NoCon, stmts |-> 0,
      seen |-> <<>>, exc |-> "none" ]

NoCalls == [i \in Sessions |-> NoCall]

\* the engine's write lock is held by another call's connection
LockedByOther(cs, i) == \E j \in Sessions \ {i} : cs[j].con.txn

\* one connection for the whole process: a statement reads whatever any call
\* has written so far
read_view_Shared(cs, i, d) ==
    IF \E j \in Sessions : cs[j].con.txn
    THEN cs[CHOOSE j \in Sessions : cs[j].con.txn].con.work
    ELSE d

\* what a statement of call i reads: the committed content, and this
\* connection's own changes once it has written
read_view(cs, i, d) == IF cs[i].con.txn THEN cs[i].con.work ELSE d

ConcTools == {"create_invoice", "run_sql", "list_tables"}

\* items lists that pass create_invoice's checks: one line, two lines, and
\* two lines of which the second fails in the transaction
ConcItemLists == {<<ItemGood>>, <<ItemGood, ItemOther>>, <<ItemGood, ItemBadTrack>>}

\* a tool is called: its connection is opened; it holds no changes of its own
ConcStart ==
    \E i \in Sessions :
        /\ calls[i].pc = "idle"
        /\ \E t \in ConcTools, its \in ConcItemLists :
              /\ (t # "create_invoice" => its = <<ItemGood>>)
              /\ calls' = [calls EXCEPT ![i] =
                              [NoCall EXCEPT !.pc = "body", !.tool = t,
                                             !.items = IF t = "create_invoice" THEN its ELSE <<>>,
                                             !.con = [NoCon EXCEPT !.open = TRUE]]]
        /\ UNCHANGED <<db, writes, hist>>

\* create_invoice's next INSERT; the first one takes the write lock, or fails
\* with "database is locked" when another connection holds it
ConcWrite ==
    \E i \in Sessions :
        LET c == calls[i] IN
        /\ c.pc = "body" /\ c.tool = "create_invoice"
        /\ IF c.stmts = 0
           THEN IF LockedByOther(calls, i)
                THEN calls' = [calls EXCEPT ![i].pc = OnBodyRaise,
                                            ![i].exc = "OperationalError"]
                ELSE calls' = [calls EXCEPT
                        ![i].con = [open |-> TRUE, txn |-> TRUE,
                                    work |-> [db EXCEPT !.invoices =
                                        Append(@, [id |-> MaxId(@) + 1, cid |-> 1,
                                                   total |-> InvoiceTotal(c.items)])]],
                        ![i].stmts = 1]
           ELSE LET it == c.items[c.stmts]
                    last == c.stmts = Len(c.items)
                IN  IF ~it.numeric
                    THEN calls' = [calls EXCEPT ![i].pc = OnBodyRaise, ![i].exc = "ValueError"]
                    ELSE calls' = [calls EXCEPT
                            ![i].con.work.lines =
                                Append(@, [iid |-> MaxId(c.con.work.invoices),
                                           tid |-> it.track_id, price |-> it.unit_price,
                                           qty |-> it.quantity]),
                            ![i].stmts = @ + 1,
                            ![i].pc = IF last THEN OnBodyReturn ELSE @]
        /\ UNCHANGED <<db, writes, hist>>

\* a reading statement: run_sql reads the invoices with their lines in one
\* SELECT; list_tables counts the invoices, then the lines, in two
ConcRead ==
    \E i \in Sessions :
        LET c == calls[i]
            v == read_view(calls, i, db)
        IN
        /\ c.pc = "body" /\ c.tool \in {"run_sql", "list_tables"}
        /\ calls' = [calls EXCEPT
              ![i].seen = Append(@,
                  IF c.tool = "run_sql"
                  THEN [what |-> "rows", invoices |-> v.invoices, lines |-> v.lines]
                  ELSE IF c.stmts = 0
                       THEN [what |-> "invoices", invoices |-> v.invoices, lines |-> <<>>]
                       ELSE [what |-> "lines", invoices |-> <<>>, lines |-> v.lines]),
              ![i].stmts = @ + 1,
              ![i].pc = IF c.tool = "run_sql" \/ c.stmts = 1 THEN OnBodyReturn ELSE @]
        /\ UNCHANGED <<db, writes, hist>>

\* con.commit(): the connection's changes become the committed content
ConcCommit ==
    \E i \in Sessions :
        LET c == calls[i] IN
        /\ c.pc = "commit"
        /\ c.con.txn => writes < MaxWrites
        /\ db' = IF c.con.txn THEN c.con.work ELSE db
        /\ hist' = IF c.con.txn THEN hist \cup {c.con.work} ELSE hist
        /\ writes' = IF c.con.txn THEN writes + 1 ELSE writes
        /\ calls' = [calls EXCEPT ![i].con = [NoCon EXCEPT !.open = TRUE],
                                   ![i].pc = OnFinally]

\* except Exception: con.rollback(); raise
ConcRollback ==
    \E i \in Sessions :
        /\ calls[i].pc = "rollback"
        /\ calls' = [calls EXCEPT ![i].con = [NoCon EXCEPT !.open = TRUE],
                                   ![i].pc = OnFinally]
        /\ UNCHANGED <<db, writes, hist>>

\* finally: con.close(); the call returns and its slot is free again
ConcClose ==
    \E i \in Sessions :
        /\ calls[i].pc = "close"
        /\ calls' = [calls EXCEPT ![i] = NoCall]
        /\ UNCHANGED <<db, writes, hist>>

-----------------------------------------------------------------------------
(* Agent scripts: get_or_create_agent, src/agent_mcp_github_oauth_streaming.py, *)
(* and the same steps inline in otel_observable_agent/agent_mcp_combined.py main *)

\* agents the project holds in one run of the model
MaxAgents == 4

AgentNames == {"demo", "other"}

\* the agent at position k of the listing, if the name is there
RECURSIVE FindByName(_, _, _)
FindByName(listed, name, k) ==
    IF k > Len(listed) THEN 0
    ELSE IF listed[k].name = name THEN k
    ELSE FindByName(listed, name, k + 1)

\* project.agents.create_agent: a new agent with a new id, added to the project
create_agent(as, name) == Append(as, [id |-> Len(as) + 1, name |-> name])

\* get_or_create_agent.  has_list: the SDK surface has list_agents or list;
\* yields: how many agents the listing yields before it raises (all of them
\* when it does not raise).
get_or_create_agent(as, name, has_list, yields) ==
    LET listed == SubSeq(as, 1, Min(yields, Len(as)))
        k == IF has_list THEN FindByName(listed, name, 1) ELSE 0
    IN  IF k > 0
        THEN [agents |-> as, ret |-> as[k], created |-> FALSE]
        ELSE [agents |-> create_agent(as, name),
              ret |-> [id |-> Len(as) + 1, name |-> name], created |-> TRUE]

NoAgent == [id |-> 0, name |-> "none"]

\* no call made yet; creates counts the create_agent calls per name
NoAgentCall ==
    [ name |-> "none", has_list |-> TRUE, raised |-> FALSE, existed |-> FALSE,
      ret |-> NoAgent, created |-> FALSE, creates |-> [n \in AgentNames |-> 0] ]

\* the projects a script may find: empty, or with agents made earlier
AgentProjects ==
    { <<>>,
      <<[id |-> 1, name |-> "demo"]>>,
      <<[id |-> 1, name |-> "other"]>>,
      <<[id |-> 1, name |-> "other"], [id |-> 2, name |-> "demo"]>> }

\* one run of a script: get_or_create_agent(project, name=...)
GetOrCreateAgent ==
    /\ Len(agents) < MaxAgents
    /\ \E name \in AgentNames, has_list \in BOOLEAN, yields \in 0..Len(agents) :
          LET r == get_or_create_agent(agents, name, has_list, yields)
          IN  /\ (~has_list => yields = Len(agents))
              /\ agents' = r.agents
              /\ agentCall' =
                    [ name |-> name, has_list |-> has_list,
                      raised |-> yields < Len(agents) /\ ~(\E k \in 1..yields : agents[k].name = name),
                      existed |-> \E k \in 1..Len(agents) : agents[k].name = name,
                      ret |-> r.ret, created |-> r.created,
                      creates |-> [agentCall.creates EXCEPT
                                      ![name] = IF r.created THEN @ + 1 ELSE @] ]

-----------------------------------------------------------------------------
(* resolve_server_url_or_warn, agent/create_agent.py and agent/ask_agent.py *)

SuffixMcp == <<"/", "m", "c", "p">>

\* "https://example.invalid/mcp"
InvalidUrl ==
    <<"h","t","t","p","s",":","/","/","e","x","a","m","p","l","e",".",
      "i","n","v","a","l","i","d","/","m","c","p">>

\* str.endswith(p)
EndsWith(s, p) == Len(s) >= Len(p) /\ SubSeq(s, Len(s) - Len(p) + 1, Len(s)) = p

resolve_server_url_or_warn(r) ==
    IF r = NoneVal \/ r = <<>> \/ Strip(r) = <<>>
    THEN [url |-> InvalidUrl, ok |-> FALSE]
    ELSE LET t == Strip(r)
         IN  IF ~EndsWith(RStripSlash(t), SuffixMcp)
             THEN [url |-> RStripSlash(t) \o SuffixMcp, ok |-> TRUE]
             ELSE [url |-> t, ok |-> TRUE]

\* longest MCP_SERVER_URL value, in pieces
MaxUrlPieces == 3

UrlPieces == {<<"h">>, <<"/">>, SuffixMcp, <<" ">>}

RECURSIVE UrlTextsOf(_)
UrlTextsOf(n) ==
    IF n = 0 THEN {<<>>}
    ELSE LET shorter == UrlTextsOf(n - 1)
         IN  shorter \cup {t \o q : t \in shorter, q \in UrlPieces}

\* os.getenv("MCP_SERVER_URL"): unset, or any text
UrlTexts == UrlTextsOf(MaxUrlPieces) \cup {NoneVal}

NotResolved == [done |-> FALSE, url |-> <<>>, ok |-> FALSE, again |-> NoneVal]

\* server_url, has_server_url = resolve_server_url_or_warn(os.getenv(...))
ResolveUrl ==
    /\ ~resolved.done
    /\ LET r == resolve_server_url_or_warn(raw)
       IN  resolved' = [done |-> TRUE, url |-> r.url, ok |-> r.ok, again |-> NoneVal]
    /\ UNCHANGED raw

\* the function applied to the URL it returned
ResolveAgain ==
    /\ resolved.done
    /\ resolved.again = NoneVal
    /\ resolved' = [resolved EXCEPT !.again = resolve_server_url_or_warn(resolved.url).url]
    /\ UNCHANGED raw

-----------------------------------------------------------------------------
(* OTelVerbosePrinter, otel_observable_agent/agent_mcp_combined.py          *)

\* spans the tracer starts in one run of the model
MaxSpans == 3

StepIds == {"step_1", "step_2"}

StartStatuses == {"in_progress", "queued"}

EndStatuses == {"completed", "failed", "cancelled"}

\* the values of step.status; "expired" is one the handler has no branch for
StepStatuses == StartStatuses \cup EndStatuses \cup {"expired"}

\* __init__: both maps empty.  _step_spans maps a step id to its span (the
\* span's place in the tracer's list); _step_start_ns is kept as its key set.
NewPrinter == [_step_spans |-> << >>, _step_start_ns |-> {}]

\* the tracer before any span; first: the status each step was first seen in
NewTracer == [spans |-> <<>>, first |-> [i \in StepIds |-> "none"]]

\* dict.pop(key, None): the map without the key
Pop(m, key) == [k \in DOMAIN m \ {key} |-> m[k]]

\* on_run_step for a step with this id and status; is_tool: its details are
\* of type "tool_calls".  First the start branch (lines 108-139), then the
\* end branch (lines 142-150).
on_run_step(pr, tr, id, status, is_tool) ==
    IF ~is_tool THEN [printer |-> pr, tracer |-> tr]
    ELSE
    LET starts == status \in StartStatuses /\ id \notin DOMAIN pr._step_spans
        sp1 == IF starts
               THEN Append(tr.spans, [step |-> id, started_as |-> status, ended |-> 0])
               ELSE tr.spans
        p1 == IF starts
              THEN [ _step_spans |-> [k \in DOMAIN pr._step_spans \cup {id} |->
                                         IF k = id THEN Len(sp1) ELSE pr._step_spans[k]],
                     _step_start_ns |-> pr._step_start_ns \cup {id} ]
              ELSE pr
        ends == status \in EndStatuses
        had == ends /\ id \in DOMAIN p1._step_spans
    IN  [ printer |-> IF ends
                      THEN [ _step_spans |-> Pop(p1._step_spans, id),
                             _step_start_ns |-> p1._step_start_ns \ {id} ]
                      ELSE p1,
          tracer |-> [ spans |-> IF had
                                 THEN [sp1 EXCEPT ![p1._step_spans[id]].ended = @ + 1]
                                 ELSE sp1,
                       first |-> IF tr.first[id] = "none"
                                 THEN [tr.first EXCEPT ![id] = status] ELSE tr.first ] ]

\* the stream delivers a run step event, in any order the service may send
OnRunStep ==
    \E id \in StepIds, status \in StepStatuses, is_tool \in BOOLEAN :
        /\ (is_tool /\ status \in StartStatuses) => Len(tracer.spans) < MaxSpans
        /\ LET r == on_run_step(printer, tracer, id, status, is_tool)
           IN  /\ printer' = r.printer
               /\ tracer' = r.tracer

-----------------------------------------------------------------------------
(* Specifications                                                          *)

\* the tool server after startup: tool invocations against the working copy
Init ==
    /\ db \in BaseDbs
    /\ con = NoCon
    /\ pc = "idle"
    /\ inv = BlankInv
    /\ stmts = 0
    /\ log = <<>>
    /\ out = BlankOut
    /\ pre = db
    /\ writes = 0
    /\ sql = <<>>
    /\ sqlSeen = NotAsked
    /\ cfgPath = PathMcp
    /\ gate = NewGate(NoneVal, MainMountPath)
    /\ req = NoReq
    /\ resp = NoResp
    /\ env = DefaultEnv
    /\ cfg = NoCfg
    /\ fs = NoFs
    /\ boot = BootStart(0, 0)
    /\ calls = NoCalls
    /\ hist = {}
    /\ agents = <<>>
    /\ agentCall = NoAgentCall
    /\ raw = NoneVal
    /\ resolved = NotResolved
    /\ printer = NewPrinter
    /\ tracer = NewTracer

Next ==
    \/ list_tables /\ UNCHANGED <<sqlVars, authVars, bootVars, concVars, agentVars, urlVars, otelVars>>
    \/ schema_snapshot /\ UNCHANGED <<sqlVars, authVars, bootVars, concVars, agentVars, urlVars, otelVars>>
    \/ get_table_info /\ UNCHANGED <<sqlVars, authVars, bootVars, concVars, agentVars, urlVars, otelVars>>
    \/ run_sql /\ UNCHANGED <<sqlVars, authVars, bootVars, concVars, agentVars, urlVars, otelVars>>
    \/ run_sql_write /\ UNCHANGED <<sqlVars, authVars, bootVars, concVars, agentVars, urlVars, otelVars>>
    \/ insert_customer /\ UNCHANGED <<sqlVars, authVars, bootVars, concVars, agentVars, urlVars, otelVars>>
    \/ update_customer_email /\ UNCHANGED <<sqlVars, authVars, bootVars, concVars, agentVars, urlVars, otelVars>>
    \/ top_customers /\ UNCHANGED <<sqlVars, authVars, bootVars, concVars, agentVars, urlVars, otelVars>>
    \/ create_invoice /\ UNCHANGED <<sqlVars, authVars, bootVars, concVars, agentVars, urlVars, otelVars>>
    \/ Commit /\ UNCHANGED <<sqlVars, authVars, bootVars, concVars, agentVars, urlVars, otelVars>>
    \/ Rollback /\ UNCHANGED <<sqlVars, authVars, bootVars, concVars, agentVars, urlVars, otelVars>>
    \/ Close /\ UNCHANGED <<sqlVars, authVars, bootVars, concVars, agentVars, urlVars, otelVars>>
    \/ Deliver /\ UNCHANGED <<sqlVars, authVars, bootVars, concVars, agentVars, urlVars, otelVars>>
    \/ Idle /\ UNCHANGED <<sqlVars, authVars, bootVars, concVars, agentVars, urlVars, otelVars>>

Spec == Init /\ [][Next]_vars

\* the classifier applied to one text
SqlInit ==
    /\ sql \in SqlTexts
    /\ sqlSeen = NotAsked
    /\ db = EmptyDb
    /\ con = NoCon
    /\ pc = "idle"
    /\ inv = BlankInv
    /\ stmts = 0
    /\ log = <<>>
    /\ out = BlankOut
    /\ pre = EmptyDb
    /\ writes = 0
    /\ cfgPath = PathMcp
    /\ gate = NewGate(NoneVal, MainMountPath)
    /\ req = NoReq
    /\ resp = NoResp
    /\ env = DefaultEnv
    /\ cfg = NoCfg
    /\ fs = NoFs
    /\ boot = BootStart(0, 0)
    /\ calls = NoCalls
    /\ hist = {}
    /\ agents = <<>>
    /\ agentCall = NoAgentCall
    /\ raw = NoneVal
    /\ resolved = NotResolved
    /\ printer = NewPrinter
    /\ tracer = NewTracer

SqlNext == ClassifyText /\ UNCHANGED <<authVars, dbVars, bootVars, concVars, agentVars, urlVars, otelVars>>

SpecSql == SqlInit /\ [][SqlNext]_vars

\* the process after main has built the application: requests at the gate
AuthInit ==
    /\ cfgPath \in CfgPaths
    /\ \E t \in Tokens : gate = NewGate(t, MainMountPath)
    /\ req = NoReq
    /\ resp = NoResp
    /\ sql = <<>>
    /\ sqlSeen = NotAsked
    /\ db = EmptyDb
    /\ con = NoCon
    /\ pc = "idle"
    /\ inv = BlankInv
    /\ stmts = 0
    /\ log = <<>>
    /\ out = BlankOut
    /\ pre = EmptyDb
    /\ writes = 0
    /\ env = DefaultEnv
    /\ cfg = NoCfg
    /\ fs = NoFs
    /\ boot = BootStart(0, 0)
    /\ calls = NoCalls
    /\ hist = {}
    /\ agents = <<>>
    /\ agentCall = NoAgentCall
    /\ raw = NoneVal
    /\ resolved = NotResolved
    /\ printer = NewPrinter
    /\ tracer = NewTracer

AuthNext ==
    \/ Receive /\ UNCHANGED <<sqlVars, dbVars, bootVars, concVars, agentVars, urlVars, otelVars>>
    \/ Dispatch /\ UNCHANGED <<sqlVars, dbVars, bootVars, concVars, agentVars, urlVars, otelVars>>

SpecAuth == AuthInit /\ [][AuthNext]_vars

\* the process from its start: main, then writing tool calls and restarts
BootInit ==
    /\ env \in BootEnvs
    /\ cfg = NoCfg
    /\ \E b \in BaseFiles, w \in WorkingDirs :
          fs = [base |-> b, wdir |-> w.wdir, work |-> w.work, wal |-> NoFile]
    /\ boot = BootStart(0, 0)
    /\ sql = <<>>
    /\ sqlSeen = NotAsked
    /\ cfgPath = PathMcp
    /\ gate = NewGate(NoneVal, MainMountPath)
    /\ req = NoReq
    /\ resp = NoResp
    /\ db = EmptyDb
    /\ con = NoCon
    /\ pc = "idle"
    /\ inv = BlankInv
    /\ stmts = 0
    /\ log = <<>>
    /\ out = BlankOut
    /\ pre = EmptyDb
    /\ writes = 0
    /\ calls = NoCalls
    /\ hist = {}
    /\ agents = <<>>
    /\ agentCall = NoAgentCall
    /\ raw = NoneVal
    /\ resolved = NotResolved
    /\ printer = NewPrinter
    /\ tracer = NewTracer

BootNext ==
    \/ LoadConfig /\ UNCHANGED <<sqlVars, authVars, dbVars, concVars, agentVars, urlVars, otelVars>>
    \/ EnsureWorkingCopy /\ UNCHANGED <<sqlVars, authVars, dbVars, concVars, agentVars, urlVars, otelVars>>
    \/ IntegrityCheck /\ UNCHANGED <<sqlVars, authVars, dbVars, concVars, agentVars, urlVars, otelVars>>
    \/ ResolveRoles /\ UNCHANGED <<sqlVars, authVars, dbVars, concVars, agentVars, urlVars, otelVars>>
    \/ RegisterTools /\ UNCHANGED <<sqlVars, authVars, dbVars, concVars, agentVars, urlVars, otelVars>>
    \/ Serve /\ UNCHANGED <<sqlVars, authVars, dbVars, concVars, agentVars, urlVars, otelVars>>
    \/ ToolWrite /\ UNCHANGED <<sqlVars, authVars, dbVars, concVars, agentVars, urlVars, otelVars>>
    \/ ToolClose /\ UNCHANGED <<sqlVars, authVars, dbVars, concVars, agentVars, urlVars, otelVars>>
    \/ Restart /\ UNCHANGED <<sqlVars, authVars, dbVars, concVars, agentVars, urlVars, otelVars>>

SpecBoot == BootInit /\ [][BootNext]_vars

\* the tool server after startup, with tool calls running at the same time
ConcInit ==
    /\ db \in BaseDbs
    /\ hist = {db}
    /\ calls = NoCalls
    /\ writes = 0
    /\ con = NoCon
    /\ pc = "idle"
    /\ inv = BlankInv
    /\ stmts = 0
    /\ log = <<>>
    /\ out = BlankOut
    /\ pre = db
    /\ sql = <<>>
    /\ sqlSeen = NotAsked
    /\ cfgPath = PathMcp
    /\ gate = NewGate(NoneVal, MainMountPath)
    /\ req = NoReq
    /\ resp = NoResp
    /\ env = DefaultEnv
    /\ cfg = NoCfg
    /\ fs = NoFs
    /\ boot = BootStart(0, 0)
    /\ agents = <<>>
    /\ agentCall = NoAgentCall
    /\ raw = NoneVal
    /\ resolved = NotResolved
    /\ printer = NewPrinter
    /\ tracer = NewTracer

ConcNext ==
    \/ ConcStart /\ UNCHANGED <<sqlVars, authVars, bootVars, con, pc, inv, stmts, log, out, pre, agentVars, urlVars, otelVars>>
    \/ ConcWrite /\ UNCHANGED <<sqlVars, authVars, bootVars, con, pc, inv, stmts, log, out, pre, agentVars, urlVars, otelVars>>
    \/ ConcRead /\ UNCHANGED <<sqlVars, authVars, bootVars, con, pc, inv, stmts, log, out, pre, agentVars, urlVars, otelVars>>
    \/ ConcCommit /\ UNCHANGED <<sqlVars, authVars, bootVars, con, pc, inv, stmts, log, out, pre, agentVars, urlVars, otelVars>>
    \/ ConcRollback /\ UNCHANGED <<sqlVars, authVars, bootVars, con, pc, inv, stmts, log, out, pre, agentVars, urlVars, otelVars>>
    \/ ConcClose /\ UNCHANGED <<sqlVars, authVars, bootVars, con, pc, inv, stmts, log, out, pre, agentVars, urlVars, otelVars>>

SpecConc == ConcInit /\ [][ConcNext]_vars

\* the agent scripts run against one project, any number of times
AgentInit ==
    /\ agents \in AgentProjects
    /\ agentCall = NoAgentCall
    /\ db = EmptyDb
    /\ con = NoCon
    /\ pc = "idle"
    /\ inv = BlankInv
    /\ stmts = 0
    /\ log = <<>>
    /\ out = BlankOut
    /\ pre = EmptyDb
    /\ writes = 0
    /\ sql = <<>>
    /\ sqlSeen = NotAsked
    /\ cfgPath = PathMcp
    /\ gate = NewGate(NoneVal, MainMountPath)
    /\ req = NoReq
    /\ resp = NoResp
    /\ env = DefaultEnv
    /\ cfg = NoCfg
    /\ fs = NoFs
    /\ boot = BootStart(0, 0)
    /\ calls = NoCalls
    /\ hist = {}
    /\ raw = NoneVal
    /\ resolved = NotResolved
    /\ printer = NewPrinter
    /\ tracer = NewTracer

AgentNext == GetOrCreateAgent /\ UNCHANGED <<sqlVars, authVars, dbVars, bootVars, concVars, urlVars, otelVars>>

SpecAgent == AgentInit /\ [][AgentNext]_vars

\* one run of a script's reading of MCP_SERVER_URL
UrlInit ==
    /\ raw \in UrlTexts
    /\ resolved = NotResolved
    /\ agents = <<>>
    /\ agentCall = NoAgentCall
    /\ db = EmptyDb
    /\ con = NoCon
    /\ pc = "idle"
    /\ inv = BlankInv
    /\ stmts = 0
    /\ log = <<>>
    /\ out = BlankOut
    /\ pre = EmptyDb
    /\ writes = 0
    /\ sql = <<>>
    /\ sqlSeen = NotAsked
    /\ cfgPath = PathMcp
    /\ gate = NewGate(NoneVal, MainMountPath)
    /\ req = NoReq
    /\ resp = NoResp
    /\ env = DefaultEnv
    /\ cfg = NoCfg
    /\ fs = NoFs
    /\ boot = BootStart(0, 0)
    /\ calls = NoCalls
    /\ hist = {}
    /\ printer = NewPrinter
    /\ tracer = NewTracer

UrlNext ==
    \/ ResolveUrl /\ UNCHANGED <<sqlVars, authVars, dbVars, bootVars, concVars, agentVars, otelVars>>
    \/ ResolveAgain /\ UNCHANGED <<sqlVars, authVars, dbVars, bootVars, concVars, agentVars, otelVars>>

SpecUrl == UrlInit /\ [][UrlNext]_vars

\* a run streamed to an OTelVerbosePrinter
OtelInit ==
    /\ printer = NewPrinter
    /\ tracer = NewTracer
    /\ raw = NoneVal
    /\ resolved = NotResolved
    /\ agents = <<>>
    /\ agentCall = NoAgentCall
    /\ db = EmptyDb
    /\ con = NoCon
    /\ pc = "idle"
    /\ inv = BlankInv
    /\ stmts = 0
    /\ log = <<>>
    /\ out = BlankOut
    /\ pre = EmptyDb
    /\ writes = 0
    /\ sql = <<>>
    /\ sqlSeen = NotAsked
    /\ cfgPath = PathMcp
    /\ gate = NewGate(NoneVal, MainMountPath)
    /\ req = NoReq
    /\ resp = NoResp
    /\ env = DefaultEnv
    /\ cfg = NoCfg
    /\ fs = NoFs
    /\ boot = BootStart(0, 0)
    /\ calls = NoCalls
    /\ hist = {}

OtelNext == OnRunStep /\ UNCHANGED <<sqlVars, authVars, dbVars, bootVars, concVars, agentVars, urlVars>>

SpecOtel == OtelInit /\ [][OtelNext]_vars

-----------------------------------------------------------------------------
(* Properties                                                              *)

Count(seq, x) == Cardinality({i \in 1..Len(seq) : seq[i] = x})

\* C1: Database.transaction opens one connection and, however the body ends,
\* completes exactly one terminal action and then closes the connection: after
\* a normal return it calls commit (and the call succeeds, or the commit
\* raises and is followed by rollback and that exception); after the body
\* raised it rolls back and the caller gets the same exception; close is the
\* last event on every path.
C1_TransactionScope ==
    (pc = "done" /\ log # <<>>) =>
        /\ Count(log, "connect") = 1 /\ log[1] = "connect"
        /\ Count(log, "close") = 1 /\ log[Len(log)] = "close"
        /\ Count(log, "commit") + Count(log, "rollback") = 1
        /\ ~con.open
        /\ out.body # "none"
        /\ out.body = "returned" =>
              \/ /\ log = <<"connect", "commit", "close">>
                 /\ out.got = "ok"
              \/ /\ log = <<"connect", "commit_failed", "rollback", "close">>
                 /\ out.got = "error"
                 /\ out.exc = "OperationalError"
        /\ out.body # "returned" =>
              /\ log = <<"connect", "rollback", "close">>
              /\ out.got = "error"
              /\ out.exc = out.body

\* a body that raised after writing: rolled back, closed, same exception
C1_Witness ==
    /\ pc = "done"
    /\ inv.tool = "run_sql_write"
    /\ out.body = "ValueError"
    /\ out.exc = "ValueError"
    /\ log = <<"connect", "rollback", "close">>

\* the rows create_invoice means to add to pre
InvoiceHeader(d, i) ==
    [id |-> MaxId(d.invoices) + 1, cid |-> i.cid, total |-> InvoiceTotal(i.items)]

InvoiceLines(d, i) ==
    [j \in 1..Len(i.items) |->
        [iid |-> MaxId(d.invoices) + 1, tid |-> i.items[j].track_id,
         price |-> i.items[j].unit_price, qty |-> i.items[j].quantity]]

WithInvoice(d, i) ==
    [d EXCEPT !.invoices = Append(@, InvoiceHeader(d, i)),
              !.lines = @ \o InvoiceLines(d, i)]

\* C2: create_invoice is atomic: at every moment of the call the committed
\* database is either the one before the call or that one plus the header and
\* every line; when the call fails (for instance on its second item) it is
\* the one before the call.
C2_CreateInvoiceAtomic ==
    inv.tool = "create_invoice" =>
        /\ db = pre \/ (out.exc = "none" /\ Count(log, "commit") = 1
                        /\ db = WithInvoice(pre, inv))
        /\ (pc = "done" /\ out.got = "error") => db = pre
        /\ (pc = "done" /\ out.got = "ok") => db = WithInvoice(pre, inv)

\* the second of two items fails after the header and the first line were written
C2_Witness ==
    /\ pc = "done"
    /\ inv.tool = "create_invoice"
    /\ Len(inv.items) = 2
    /\ ~inv.items[2].numeric
    /\ stmts = 2
    /\ out.got = "error"
    /\ log = <<"connect", "rollback", "close">>

\* C3: a run_sql_write whose statement affects more than 10000 rows fails with
\* the capacity error and the database is as before the call; one that affects
\* 10000 rows or fewer returns that count with its changes committed (unless
\* the commit itself fails, which leaves the database as before).
C3_WriteCap ==
    (pc = "done" /\ inv.tool = "run_sql_write" /\ out.body # "none" /\ ~inv.failing) =>
        LET op == WriteOp(inv.query)
            a == Affected(op, inv.n, pre)
        IN  /\ a > MaxAffected =>
                  /\ out.got = "error"
                  /\ out.exc = "ValueError"
                  /\ db = pre
            /\ a <= MaxAffected =>
                  \/ /\ out.got = "ok"
                     /\ out.ret = [kind |-> "affected", a |-> a, b |-> 0, rows |-> <<>>]
                     /\ db = ApplyWrite(op, inv.n, pre)
                  \/ /\ out.got = "error"
                     /\ Count(log, "commit_failed") = 1
                     /\ db = pre

\* a statement over the cap was run, rolled back and refused
C3_Witness ==
    /\ pc = "done"
    /\ inv.tool = "run_sql_write"
    /\ inv.n = MaxAffected + 1
    /\ Affected(WriteOp(inv.query), inv.n, pre) = MaxAffected + 1
    /\ out.exc = "ValueError"
    /\ Count(log, "rollback") = 1
    /\ db = pre

\* the call was refused before any execution
RefusedUnrun ==
    /\ pc \in {"return", "done"}
    /\ out.exc = "ValueError"
    /\ out.body = "none"
    /\ pc = "done" => out.got = "error"
    /\ log = <<>>
    /\ ~con.open
    /\ db = pre

\* C4: run_sql goes on to the database only with a query classified Read and
\* run_sql_write only with one classified Write; any other query is refused
\* with ValueError, no connection is opened and the database is unchanged.
C4_RawSqlGates ==
    /\ (inv.tool = "run_sql" /\ Classify(inv.query) # "Read") => RefusedUnrun
    /\ (inv.tool = "run_sql_write" /\ Classify(inv.query) # "Write") => RefusedUnrun
    /\ (inv.tool = "run_sql" /\ Classify(inv.query) = "Read") => log # <<>>
    /\ (inv.tool = "run_sql_write" /\ Classify(inv.query) = "Write") => log # <<>>

\* a write statement handed to run_sql
C4_Witness ==
    /\ pc = "done"
    /\ inv.tool = "run_sql"
    /\ Classify(inv.query) = "Write"
    /\ out.got = "error"

\* index of the last character that is not whitespace (0 if there is none)
LastNonSpace(s) ==
    IF \A i \in 1..Len(s) : IsSpace(s[i]) THEN 0
    ELSE CHOOSE i \in 1..Len(s) :
            ~IsSpace(s[i]) /\ \A j \in (i + 1)..Len(s) : IsSpace(s[j])

\* a ";" somewhere other than as the one trailing terminator
InnerSeparator(s) ==
    /\ s # NoneVal
    /\ \E i \in 1..Len(s) : s[i] = ";" /\ i # LastNonSpace(s)

\* C5: a text with a statement separator anywhere but as the single trailing
\* terminator is Invalid whatever its keyword: is_select and is_write are both
\* false and both raw-SQL gates refuse it.
C5_SeparatorInvalid ==
    (sqlSeen.asked /\ InnerSeparator(sql)) =>
        /\ ~sqlSeen.sel
        /\ ~sqlSeen.wr
        /\ sqlSeen.cls = "Invalid"
        /\ ~sqlSeen.rd
        /\ ~sqlSeen.wrt

\* a text whose keyword is select, refused for its separator
C5_Witness ==
    /\ sqlSeen.asked
    /\ InnerSeparator(sql)
    /\ _select_re(OrEmpty(sql))
    /\ sqlSeen.cls = "Invalid"

\* the first keyword: the run of word characters after the leading whitespace,
\* in lower case
RECURSIVE WordRun(_)
WordRun(s) ==
    IF s = <<>> \/ ~IsWordChar(Head(s)) THEN <<>>
    ELSE <<Lower(Head(s))>> \o WordRun(Tail(s))

FirstWord(s) ==
    LET t == OrEmpty(s) IN WordRun(SubSeq(t, LeadingSpaces(t) + 1, Len(t)))

KeywordClass(s) ==
    IF FirstWord(s) = KwSelect THEN "Read"
    ELSE IF FirstWord(s) \in WriteKeywords THEN "Write"
    ELSE "Invalid"

\* C6 as stated: the leading keyword alone decides the class.
C6_Original == sqlSeen.asked => sqlSeen.cls = KeywordClass(sql)

\* C6: a text without an inner statement separator is Read when its first
\* keyword is select, Write when it is insert, update, delete or replace (in
\* any case, as a whole word, after leading whitespace) and Invalid for any
\* other first keyword; a text with an inner separator is Invalid.
C6_KeywordClass ==
    sqlSeen.asked =>
        sqlSeen.cls = IF InnerSeparator(sql) THEN "Invalid" ELSE KeywordClass(sql)

\* an upper-case SELECT after whitespace, with the trailing terminator: Read
C6_Witness ==
    /\ sqlSeen.asked
    /\ sql # NoneVal /\ Len(sql) > 7
    /\ IsSpace(sql[1]) /\ sql[2] = "S"
    /\ sql[Len(sql)] = ";"
    /\ sqlSeen.cls = "Read"

\* the request has been answered
Answered == ~req.pending /\ resp # NoResp

\* LOCAL_MCP_TOKEN is set to a non-empty value
TokenConfigured == gate.token # NoneVal /\ gate.token # <<>>

\* the path equals the mount path m or lies below it
PathUnder(path, m) ==
    \/ path = m
    \/ Len(path) > Len(m) /\ SubSeq(path, 1, Len(m)) = m /\ path[Len(m) + 1] = "/"

\* the Authorization header is exactly "Bearer <configured token>"
ExactBearer == req.header # NoneVal /\ req.header = BearerPrefix \o gate.token

\* C7: with a bearer token configured, a request to the gate's mount path or
\* below it whose Authorization header is missing or is not exactly
\* "Bearer <token>" is answered 401 {"error": "unauthorized"}, is not handed to
\* the inner application, and no tool logic runs.
C7_DeniedUnauthorized ==
    (Answered /\ TokenConfigured /\ PathUnder(req.path, gate.mount_path) /\ ~ExactBearer) =>
        /\ resp.status = 401
        /\ resp.body = "unauthorized"
        /\ ~resp.forwarded
        /\ ~resp.ranTool

\* a path below the mount path with another token
C7_Witness ==
    /\ Answered
    /\ gate.token = TokTok
    /\ req.path = PathMcp \o <<"/", "x">>
    /\ req.header = BearerPrefix \o TokBad
    /\ resp.status = 401

\* C8: the gate forwards a request in exactly three cases: no token is
\* configured, the path is outside the mount path (a path such as /mcpx that
\* only shares the prefix is outside), or the path is under the mount path and
\* the header is exactly "Bearer <token>"; the request is forwarded as received.
C8_ForwardedExactly ==
    Answered =>
        /\ resp.forwarded <=>
              \/ ~TokenConfigured
              \/ ~PathUnder(req.path, gate.mount_path)
              \/ ExactBearer
        /\ resp.forwarded => resp = CallNext(req)

\* /mcpx with no header passes a gate that has a token
C8_Witness ==
    /\ Answered
    /\ gate.token = TokTok
    /\ req.path = PathMcp \o <<"x">>
    /\ req.header = NoneVal
    /\ resp.forwarded

\* C9 as stated: the gate protects the configured mount path: for every
\* Config.MCP_PATH, a request at or under that path is subject to the bearer
\* check when a token is configured, so without the exact header it is
\* answered 401 and not forwarded.
C9_ConfiguredMountProtected ==
    (Answered /\ TokenConfigured /\ PathUnder(req.path, RStripSlash(cfgPath)) /\ ~ExactBearer) =>
        (resp.status = 401 /\ ~resp.forwarded)

\* C10: between invocations no connection is open and no transaction is
\* pending; a connection exists only while an invocation is inside its
\* transaction scope, is opened once per invocation seeing the committed
\* content, and is closed before the result or error reaches the caller; a
\* success result is delivered only after a completed commit, and a failed
\* commit yields an error.
C10_NoLeak ==
    /\ pc \in {"idle", "return", "done"} => (~con.open /\ ~con.txn /\ con = NoCon)
    /\ con.open => (pc \in {"body", "commit", "rollback", "close"} /\ Count(log, "connect") = 1)
    /\ (con.open /\ ~con.txn /\ pc = "body") => con.work = db
    /\ (pc \in {"return", "done"} /\ log # <<>>) => log[Len(log)] = "close"
    /\ out.got = "ok" =>
          /\ Count(log, "commit") = 1
          /\ Count(log, "commit_failed") = 0
          /\ out.exc = "none"
    /\ (pc = "done" /\ Count(log, "commit_failed") > 0) => (out.got = "error" /\ db = pre)

\* after a committed write, a later invocation whose commit failed
C10_Witness ==
    /\ pc = "done"
    /\ writes = 1
    /\ inv.tool = "insert_customer"
    /\ log = <<"connect", "commit_failed", "rollback", "close">>
    /\ out.got = "error"
    /\ con = NoCon

\* the base file is never written: no step changes it
BaseNeverWritten == [][fs'.base = fs.base]_vars

\* C11 as stated: ensure_working_copy copies the base file over the working
\* file exactly when persist is false or the working file is absent; hence
\* with persist false, once a start has made its copy and before any further
\* writing call, the working copy reads as the base file does, whatever
\* writing calls came before the restart.
C11_WorkingCopyFresh ==
    Len(boot.trace) >= 2 =>
        /\ boot.copies = (IF ~cfg.PERSIST_WORKING_COPY \/ ~boot.found THEN 1 ELSE 0)
        /\ (~cfg.PERSIST_WORKING_COPY /\ boot.since = 0) => View(fs) = fs.base.data

\* the phases of main, in order
BootOrder ==
    <<"load_config", "ensure_working_copy", "integrity_check", "resolve_roles",
      "register_tools", "serve">>

\* some table of the catalog bears a candidate's name, letter case aside
RoleFound(catalog, cands) ==
    \E k \in 1..Len(cands), t \in catalog : LowerText(t) = LowerText(cands[k])

AllRolesFound(catalog) ==
    /\ RoleFound(catalog, CustomersCandidates)
    /\ RoleFound(catalog, InvoicesCandidates)
    /\ RoleFound(catalog, InvoiceItemsCandidates)

\* C12: main goes through config load, working copy, integrity check, role
\* resolution, tool registration and serving in that order; tools are
\* registered and requests served only when the integrity check answered ok
\* and every role has a table; a check that is not ok, or a role without a
\* table, ends the process with RuntimeError, nothing registered or served.
C12_StartupOrder ==
    /\ Len(boot.trace) <= Len(BootOrder)
    /\ boot.trace = SubSeq(BootOrder, 1, Len(boot.trace))
    /\ boot.tools <=> Len(boot.trace) >= 5
    /\ boot.serving <=> Len(boot.trace) = 6
    /\ boot.tools =>
          /\ View(fs).sound
          /\ AllRolesFound(View(fs).catalog)
          /\ boot.tn # NoTn
    /\ (Len(boot.trace) >= 2 /\ boot.pc # "integrity_check" /\ ~View(fs).sound) =>
          /\ boot.pc = "aborted"
          /\ boot.exc = "RuntimeError"
          /\ Len(boot.trace) = 2
    /\ (Len(boot.trace) >= 3 /\ boot.pc # "resolve_roles" /\ ~AllRolesFound(View(fs).catalog)) =>
          /\ boot.pc = "aborted"
          /\ boot.exc = "RuntimeError"
          /\ Len(boot.trace) = 3
    /\ boot.pc = "aborted" => (~boot.tools /\ ~boot.serving)

\* a working copy whose integrity check is not ok: the process ended there
C12_Witness ==
    /\ boot.pc = "aborted"
    /\ boot.trace = <<"load_config", "ensure_working_copy">>
    /\ boot.copies = 1
    /\ ~View(fs).sound
    /\ boot.exc = "RuntimeError"
    /\ ~boot.tools

\* the first candidate, in order, that some table bears exactly or letter case aside
FirstMatch(catalog, cands) ==
    LET hit(k) == \E t \in catalog : t = cands[k] \/ LowerText(t) = LowerText(cands[k])
    IN  cands[CHOOSE k \in 1..Len(cands) : hit(k) /\ \A j \in 1..(k - 1) : ~hit(j)]

\* C13: each role is bound to the first of its candidates, in order, that a
\* table bears exactly or, failing that, letter case aside; when a role has no
\* such candidate register raises RuntimeError and no tool is registered; the
\* three bindings are made by three probes before any tool is registered, and
\* no later tool call probes again or changes them.
C13_PickTable ==
    /\ Len(boot.trace) >= 4 =>
          /\ boot.tn.customers = FirstMatch(View(fs).catalog, CustomersCandidates)
          /\ boot.tn.invoices = FirstMatch(View(fs).catalog, InvoicesCandidates)
          /\ boot.tn.invoice_items = FirstMatch(View(fs).catalog, InvoiceItemsCandidates)
          /\ boot.probes = 3
    /\ (Len(boot.trace) = 3 /\ boot.pc # "resolve_roles") =>
          /\ ~AllRolesFound(View(fs).catalog)
          /\ boot.pc = "aborted"
          /\ boot.exc = "RuntimeError"
          /\ boot.tn = NoTn
    /\ boot.tools => (Len(boot.trace) >= 4 /\ boot.tn # NoTn)

\* the first customers candidate found only letter case aside, a table with
\* the second candidate's exact name present, and a tool call made since
C13_Witness ==
    /\ boot.pc = "serving"
    /\ boot.since >= 1
    /\ TCustomers \notin View(fs).catalog
    /\ TCustomer \in View(fs).catalog
    /\ boot.tn.customers = TCustomers
    /\ boot.probes = 3

\* C14: create_invoice with an empty items list, with an item that lacks
\* track_id, unit_price or quantity, or with an item whose quantity is not
\* greater than 0 is refused with ValueError before any connection is opened:
\* nothing is executed and no row is inserted.
C14_InvoiceRejected ==
    ( /\ inv.tool = "create_invoice"
      /\ \/ inv.items = <<>>
         \/ \E k \in 1..Len(inv.items) : ~inv.items[k].keys \/ inv.items[k].quantity <= 0 )
    => RefusedUnrun

\* a good first item followed by one of quantity 0
C14_Witness ==
    /\ pc = "done"
    /\ inv.tool = "create_invoice"
    /\ inv.items = <<ItemGood, ItemZeroQty>>
    /\ out.got = "error"
    /\ log = <<>>
    /\ db = pre

\* unit_price times quantity, summed over the first k items
RECURSIVE LineSum(_, _)
LineSum(items, k) ==
    IF k = 0 THEN 0
    ELSE items[k].unit_price * items[k].quantity + LineSum(items, k - 1)

\* C15: a create_invoice that succeeds with n items has added exactly one
\* invoice row, with a new id, and exactly n line rows, each bearing that id
\* and its item's track, price and quantity; the header's total and the
\* returned total both equal the sum of unit_price times quantity over the
\* items; nothing else has changed.
C15_InvoiceRows ==
    (pc = "done" /\ inv.tool = "create_invoice" /\ out.got = "ok") =>
        LET n == Len(inv.items)
            h == Len(pre.invoices)
            l == Len(pre.lines)
            id == out.ret.a
        IN  /\ out.ret.kind = "invoice"
            /\ Len(db.invoices) = h + 1
            /\ SubSeq(db.invoices, 1, h) = pre.invoices
            /\ \A k \in 1..h : pre.invoices[k].id # id
            /\ db.invoices[h + 1] = [id |-> id, cid |-> inv.cid, total |-> LineSum(inv.items, n)]
            /\ out.ret.b = LineSum(inv.items, n)
            /\ Len(db.lines) = l + n
            /\ SubSeq(db.lines, 1, l) = pre.lines
            /\ \A j \in 1..n :
                  db.lines[l + j] = [iid |-> id, tid |-> inv.items[j].track_id,
                                     price |-> inv.items[j].unit_price,
                                     qty |-> inv.items[j].quantity]
            /\ db.customers = pre.customers
            /\ db.tracks = pre.tracks

\* one item of 0.99 x 2: one invoice row, one line row, total 1.98
C15_Witness ==
    /\ pc = "done"
    /\ inv.tool = "create_invoice"
    /\ inv.items = <<ItemGood>>
    /\ out.got = "ok"
    /\ out.ret.b = 198
    /\ Len(db.invoices) = Len(pre.invoices) + 1
    /\ Len(db.lines) = Len(pre.lines) + 1

\* C16 as stated: insert_customer and update_customer_email refuse, before any
\* database access, every email that is not of the shape local@domain.tld
\* (no whitespace, one "@", a "." inside what follows it); with a well-shaped
\* email a successful insert_customer has added exactly one customer row and
\* returns its new id.
C16_EmailValidated ==
    /\ (inv.tool \in {"insert_customer", "update_customer_email"} /\ ~EmailShape(inv.email))
          => RefusedUnrun
    /\ (pc = "done" /\ inv.tool = "insert_customer" /\ EmailShape(inv.email) /\ out.got = "ok") =>
          /\ db.customers = Append(pre.customers, [id |-> out.ret.a, email |-> inv.email])
          /\ \A k \in 1..Len(pre.customers) : pre.customers[k].id # out.ret.a
          /\ db.invoices = pre.invoices /\ db.lines = pre.lines /\ db.tracks = pre.tracks

\* the customer rows of d with the email of customer cid replaced
WithEmail(d, cid, email) ==
    [d EXCEPT !.customers =
        [k \in 1..Len(@) |-> IF @[k].id = cid THEN [id |-> cid, email |-> email] ELSE @[k]]]

\* C17: update_customer_email with a well-shaped email and an id that no
\* customer has succeeds with an affected-row count of 0 and leaves the
\* database unchanged; with an existing id it returns 1 and the database
\* differs from before in that customer's email only (a commit that raises
\* yields an error and leaves the database unchanged).
C17_UpdateEmail ==
    (pc = "done" /\ inv.tool = "update_customer_email" /\ EmailShape(inv.email)) =>
        LET known == \E k \in 1..Len(pre.customers) : pre.customers[k].id = inv.cid
        IN  /\ ~known =>
                  /\ out.got = "ok"
                  /\ out.ret.kind = "affected" /\ out.ret.a = 0
                  /\ db = pre
            /\ known =>
                  \/ /\ out.got = "ok"
                     /\ out.ret.kind = "affected" /\ out.ret.a = 1
                     /\ db = WithEmail(pre, inv.cid, inv.email)
                  \/ /\ out.got = "error"
                     /\ Count(log, "commit_failed") = 1
                     /\ db = pre

\* an id no customer has: 0 rows, a success
C17_Witness ==
    /\ pc = "done"
    /\ inv.tool = "update_customer_email"
    /\ inv.cid = 9
    /\ inv.email = EmailNew
    /\ out.got = "ok"
    /\ out.ret.a = 0
    /\ log = <<"connect", "commit", "close">>

\* C18: top_customers with a limit below 1 or above 100 is refused with
\* ValueError before any connection is opened; with a limit in the range it
\* returns the first min(limit, customers) rows, one per customer, by total
\* invoiced amount descending and customer id ascending among equal totals;
\* a customer without invoices has total 0; the database is unchanged.
C18_TopCustomers ==
    /\ (inv.tool = "top_customers" /\ (inv.limit < 1 \/ inv.limit > 100)) => RefusedUnrun
    /\ (pc = "done" /\ inv.tool = "top_customers" /\ inv.limit >= 1 /\ inv.limit <= 100) =>
          LET r == out.ret.rows
              ids == {pre.customers[k].id : k \in 1..Len(pre.customers)}
              of(c) == {k \in 1..Len(pre.invoices) : pre.invoices[k].cid = c}
              total(c) == TotalSpent(pre.invoices, c)
          IN  /\ out.got = "ok"
              /\ db = pre
              /\ Len(r) <= inv.limit
              /\ Len(r) = Min(inv.limit, Len(pre.customers))
              /\ \A k \in 1..Len(r) :
                    /\ r[k].customer_id \in ids
                    /\ r[k].total_spent = total(r[k].customer_id)
                    /\ of(r[k].customer_id) = {} => r[k].total_spent = 0
              /\ \A k \in 1..(Len(r) - 1) :
                    \/ r[k].total_spent > r[k + 1].total_spent
                    \/ /\ r[k].total_spent = r[k + 1].total_spent
                       /\ r[k].customer_id < r[k + 1].customer_id
              /\ \A c \in ids :
                    (\A k \in 1..Len(r) : r[k].customer_id # c) =>
                        /\ Len(r) = inv.limit
                        /\ \/ total(c) < r[Len(r)].total_spent
                           \/ (total(c) = r[Len(r)].total_spent /\ c > r[Len(r)].customer_id)

\* three customers, one with invoices: that one first, then the two without
\* invoices, total 0, by ascending id
C18_Witness ==
    /\ pc = "done"
    /\ inv.tool = "top_customers"
    /\ inv.limit = 100
    /\ out.got = "ok"
    /\ Len(out.ret.rows) = 3
    /\ out.ret.rows[1].total_spent > 0
    /\ out.ret.rows[2] = [customer_id |-> 1, total_spent |-> 0]
    /\ out.ret.rows[3] = [customer_id |-> 2, total_spent |-> 0]

\* C19 as stated: get_table_info fails with NotFoundError when the named table
\* has no columns, and otherwise returns the table's columns and declared
\* foreign keys; the database is unchanged either way.
C19_TableInfoNotFound ==
    (pc = "done" /\ inv.tool = "get_table_info") =>
        /\ db = pre
        /\ inv.table \notin TableNamesKnown =>
              (out.got = "error" /\ out.exc = "NotFoundError")
        /\ inv.table \in TableNamesKnown =>
              /\ out.got = "ok"
              /\ out.ret.kind = "table"
              /\ out.ret.a = SchemaInfo[inv.table].columns
              /\ out.ret.b = SchemaInfo[inv.table].foreign_keys

\* C20: load_config returns a Config only when the mount path begins with "/"
\* and the base path exists; otherwise it raises, main ends there and no copy
\* of the base file is made; when it returns, the working directory exists;
\* and the Config keeps, for as long as the process lives, the values the
\* environment gave.
C20_LoadConfig ==
    /\ cfg.loaded <=> Len(boot.trace) >= 1
    /\ cfg.loaded =>
          /\ StartsWith(cfg.MCP_PATH, Slash)
          /\ fs.base.kind # "absent"
          /\ fs.wdir = "dir"
          /\ cfg.MCP_PATH = (IF env.MCP_PATH = NoneVal THEN PathMcp ELSE env.MCP_PATH)
          /\ cfg.PERSIST_WORKING_COPY = (env.PERSIST_WORKING_COPY = <<"O","N","\n">>)
          /\ cfg.LOCAL_MCP_TOKEN = env.LOCAL_MCP_TOKEN
    /\ ( /\ boot.pc # "load_config"
         /\ \/ ~(env.MCP_PATH = NoneVal \/ (env.MCP_PATH # <<>> /\ env.MCP_PATH[1] = "/"))
            \/ fs.base.kind = "absent" ) =>
          /\ boot.pc = "aborted"
          /\ boot.exc \in {"ValueError", "FileNotFoundError"}
          /\ boot.trace = <<>>
          /\ boot.copies = 0
          /\ ~cfg.loaded

\* the base file is missing: FileNotFoundError, no directory made, no copy
C20_Witness ==
    /\ boot.pc = "aborted"
    /\ boot.exc = "FileNotFoundError"
    /\ boot.trace = <<>>
    /\ fs.base.kind = "absent"
    /\ fs.wdir = "absent"
    /\ ~fs.work.exists

-----------------------------------------------------------------------------
(* C21..C30                                                                *)

\* C21: list_tables and the schema snapshot are computed on every call over
\* the connection that call opened, never from a cache: the row counts
\* list_tables returns are those of the committed working copy at that
\* moment, so a committed write shows in the next call, and a call that
\* rolled back has left the committed content as it was; the snapshot names
\* every table of the file.
C21_LiveCounts ==
    /\ (inv.tool = "list_tables" /\ out.body = "returned") =>
          /\ log[1] = "connect"
          /\ out.ret.kind = "tables"
          /\ Len(out.ret.rows) = 4
          /\ out.ret.rows[1] = [name |-> "Customer", row_count |-> Len(db.customers)]
          /\ out.ret.rows[2] = [name |-> "Invoice", row_count |-> Len(db.invoices)]
          /\ out.ret.rows[3] = [name |-> "InvoiceLine", row_count |-> Len(db.lines)]
          /\ out.ret.rows[4] = [name |-> "Track", row_count |-> db.tracks.rows]
    /\ (inv.tool = "schema_snapshot" /\ out.body = "returned") =>
          /\ log[1] = "connect"
          /\ out.ret.kind = "schema"
          /\ out.ret.a = Cardinality(TableNamesKnown)
    /\ (Count(log, "rollback") > 0) => db = pre

\* list_tables answers after a committed insert_customer: four customers
C21_Witness ==
    /\ inv.tool = "list_tables"
    /\ out.got = "ok"
    /\ writes = 1
    /\ Len(db.customers) = 4
    /\ out.ret.rows[1].row_count = 4

\* every invoice of d has all of its lines: its total is what its lines add up to
RECURSIVE LinesTotal(_, _)
LinesTotal(lines, iid) ==
    IF lines = <<>> THEN 0
    ELSE (IF Head(lines).iid = iid THEN Head(lines).price * Head(lines).qty ELSE 0)
         + LinesTotal(Tail(lines), iid)

Complete(invoices, lines) ==
    \A k \in 1..Len(invoices) : invoices[k].total = LinesTotal(lines, invoices[k].id)

\* C22: tool calls running at the same time are independent: each has a
\* connection of its own, at most one of them holds uncommitted changes, and
\* whatever a call reads is content that was committed: never another call's
\* uncommitted rows, so never an invoice header without all of its lines.
C22_Isolation ==
    /\ Cardinality({i \in Sessions : calls[i].con.txn}) <= 1
    /\ \A h \in hist : Complete(h.invoices, h.lines)
    /\ db \in hist
    /\ \A i \in Sessions :
          /\ calls[i].pc \in {"body", "commit", "rollback", "close"} <=> calls[i].con.open
          /\ calls[i].con.txn => calls[i].tool = "create_invoice"
          /\ \A k \in 1..Len(calls[i].seen) :
                LET o == calls[i].seen[k]
                IN  CASE o.what = "rows" ->
                             /\ Complete(o.invoices, o.lines)
                             /\ \E h \in hist : h.invoices = o.invoices /\ h.lines = o.lines
                      [] o.what = "invoices" -> \E h \in hist : h.invoices = o.invoices
                      [] OTHER -> \E h \in hist : h.lines = o.lines

\* a run_sql has read the invoices while a create_invoice of two items had
\* written its header and not yet its lines
C22_Witness ==
    \E i, j \in Sessions :
        /\ calls[i].tool = "create_invoice"
        /\ Len(calls[i].items) = 2
        /\ calls[i].stmts = 1
        /\ calls[i].con.txn
        /\ Len(calls[i].con.work.invoices) = Len(db.invoices) + 1
        /\ calls[j].tool = "run_sql"
        /\ Len(calls[j].seen) = 1
        /\ calls[j].seen[1].invoices = db.invoices

\* PERSIST_WORKING_COPY is set to a word _as_bool takes for true
PersistSet == env.PERSIST_WORKING_COPY = <<"O", "N", "\n">>

\* C23: with persist true, a start that finds a working file makes no copy
\* and leaves it as it is: what the working copy reads is what it first held
\* (the base file's one row, or the five rows of a file of an earlier run)
\* plus every write committed since, across every restart; the base file
\* still holds its one row.
C23_PersistKeeps ==
    /\ (PersistSet /\ fs.work.exists) =>
          View(fs).rows \in {1 + boot.writes, 5 + boot.writes}
    /\ (PersistSet /\ boot.found /\ Len(boot.trace) >= 2) =>
          /\ boot.copies = 0
          /\ cfg.PERSIST_WORKING_COPY
    /\ fs.base.kind = "file" => fs.base.data.rows = 1

\* the server is up again after a restart, with the writes of the earlier run
C23_Witness ==
    /\ PersistSet
    /\ boot.pc = "serving"
    /\ boot.restarts >= 1
    /\ boot.writes >= 1
    /\ boot.since = 0
    /\ boot.found
    /\ boot.copies = 0
    /\ View(fs).rows = 1 + boot.writes

\* C24 as stated: get_or_create_agent is idempotent: over any sequence of
\* calls no name gets more than one agent created, and a call made when an
\* agent of that name exists returns an existing agent of that name and does
\* not call create_agent.
C24_Idempotent ==
    /\ \A n \in AgentNames : agentCall.creates[n] <= 1
    /\ agentCall.existed =>
          /\ ~agentCall.created
          /\ agentCall.ret.name = agentCall.name

\* C25 as stated: resolve_server_url_or_warn returns a URL that ends with
\* '/mcp' for every input: ('https://example.invalid/mcp', False) for a
\* missing or blank value, (url, True) with url ending in '/mcp' for any
\* other; applied to its own output it returns the same URL.
C25_EndsWithMcp ==
    resolved.done =>
        /\ EndsWith(resolved.url, SuffixMcp)
        /\ (raw = NoneVal \/ \A k \in 1..Len(raw) : IsSpace(raw[k])) =>
              (resolved.url = InvalidUrl /\ ~resolved.ok)
        /\ ~(raw = NoneVal \/ \A k \in 1..Len(raw) : IsSpace(raw[k])) => resolved.ok
        /\ resolved.again # NoneVal => resolved.again = resolved.url

\* the spans started for a step id
SpansOf(id) == {k \in 1..Len(tracer.spans) : tracer.spans[k].step = id}

\* the span at place k is the one _step_spans holds for its step
Held(k) ==
    /\ tracer.spans[k].step \in DOMAIN printer._step_spans
    /\ printer._step_spans[tracer.spans[k].step] = k

\* C26 as stated: for any sequence of step events every tool step id has at
\* most one span started, that span is ended exactly once and its entries
\* are then gone from both maps, the maps hold the same step ids, and a step
\* first seen in a terminal status gets no span.
C26_SpanPerStep ==
    /\ DOMAIN printer._step_spans = printer._step_start_ns
    /\ \A id \in StepIds :
          /\ Cardinality(SpansOf(id)) <= 1
          /\ tracer.first[id] \in EndStatuses => SpansOf(id) = {}
    /\ \A k \in 1..Len(tracer.spans) :
          /\ tracer.spans[k].ended <= 1
          /\ tracer.spans[k].ended = 0 <=> Held(k)

\* what the handler keeps for every sequence of events: at most one span of
\* a step is open at a time, a span is started only by a queued or
\* in_progress event and ended at most once, the open spans are those
\* _step_spans holds, and the two maps hold the same step ids
SpansWellKept ==
    /\ DOMAIN printer._step_spans = printer._step_start_ns
    /\ \A id \in StepIds :
          /\ Cardinality({k \in SpansOf(id) : tracer.spans[k].ended = 0}) <= 1
          /\ id \in DOMAIN printer._step_spans => printer._step_spans[id] \in SpansOf(id)
    /\ \A k \in 1..Len(tracer.spans) :
          /\ tracer.spans[k].started_as \in StartStatuses
          /\ tracer.spans[k].ended <= 1
          /\ tracer.spans[k].ended = 0 <=> Held(k)

\* C27: list_tables, get_table_info, run_sql, top_customers and the schema
\* snapshot leave the database as it is, on every call and at every moment
\* of the call, whether it returns or raises: the committed content is the
\* one the call found, and its connection never holds a change.
C27_ReadsChangeNothing ==
    inv.tool \in ReadTools =>
        /\ db = pre
        /\ ~con.txn
        /\ con.open => con.work = db
        /\ Count(log, "commit_failed") = 0

\* a run_sql whose SELECT the engine refused, after an earlier committed write
C27_Witness ==
    /\ inv.tool = "run_sql"
    /\ pc = "done"
    /\ out.got = "error"
    /\ out.exc = "OperationalError"
    /\ log = <<"connect", "rollback", "close">>
    /\ writes = 1
    /\ db = pre

\* C28: no text is both a SELECT for is_select and a write for is_write, so
\* at most one of run_sql and run_sql_write goes on with a given query; a
\* missing, empty or blank text is neither, and both tools refuse it.
C28_Exclusive ==
    sqlSeen.asked =>
        /\ ~(sqlSeen.sel /\ sqlSeen.wr)
        /\ ~(sqlSeen.rd /\ sqlSeen.wrt)
        /\ sqlSeen.rd = sqlSeen.sel
        /\ sqlSeen.wrt = sqlSeen.wr
        /\ (sql = NoneVal \/ \A k \in 1..Len(sql) : IsSpace(sql[k])) =>
              /\ ~sqlSeen.sel /\ ~sqlSeen.wr
              /\ ~sqlSeen.rd /\ ~sqlSeen.wrt
              /\ sqlSeen.cls = "Invalid"

\* a text that holds both kinds of keyword and is taken by run_sql only
C28_Witness ==
    /\ sqlSeen.asked
    /\ sql = KwSelect \o <<" ">> \o KwUpdate
    /\ sqlSeen.sel /\ sqlSeen.rd
    /\ ~sqlSeen.wr /\ ~sqlSeen.wrt

\* C29: foreign_keys=ON and synchronous=NORMAL are set on one connection
\* only, the one the startup integrity check opens; the connection register
\* opens and the connection of every tool call have the engine's defaults,
\* foreign keys off, whatever the check's connection was given.
C29_PragmasAtStartupOnly ==
    /\ \A c \in boot.cons :
          IF c.by = "integrity_check"
          THEN c.foreign_keys /\ c.synchronous = "NORMAL"
          ELSE ~c.foreign_keys /\ c.synchronous = "FULL"
    /\ Cardinality({c \in boot.cons : c.foreign_keys}) <= 1
    /\ Count(boot.trace, "integrity_check") = 1 =>
          \E c \in boot.cons : c.by = "integrity_check"
    /\ boot.since > 0 => \E c \in boot.cons : c.by = "tool"

\* a writing tool call has run in a process whose startup check set the pragmas
C29_Witness ==
    /\ boot.pc = "serving"
    /\ boot.since >= 1
    /\ [by |-> "integrity_check", foreign_keys |-> TRUE, synchronous |-> "NORMAL"] \in boot.cons
    /\ [by |-> "tool", foreign_keys |-> FALSE, synchronous |-> "FULL"] \in boot.cons

\* C30: a gate whose token is the empty string forwards every request, as a
\* gate without token does, also one under the mount path that has no
\* Authorization header; a gate with a non-empty token denies a request
\* under the mount path whose header is "Bearer " with nothing after it, the
\* token after a lower-case "bearer ", or the token alone.
C30_EmptyToken ==
    Answered =>
        /\ gate.token \in {<<>>, NoneVal} =>
              /\ resp.forwarded
              /\ resp.status # 401
              /\ resp = CallNext(req)
        /\ ( /\ TokenConfigured
             /\ PathUnder(req.path, gate.mount_path)
             /\ req.header \in { BearerPrefix,
                                 <<"b","e","a","r","e","r"," ">> \o gate.token,
                                 gate.token } ) =>
              /\ resp.status = 401
              /\ resp.body = "unauthorized"
              /\ ~resp.forwarded
              /\ ~resp.ranTool

\* the empty token: a request to the mount path without a header goes through
C30_Witness ==
    /\ Answered
    /\ gate.token = <<>>
    /\ req.path = gate.mount_path
    /\ req.header = NoneVal
    /\ resp.forwarded

====
